---------------------------- MODULE Spec2Model ----------------------------
(***************************************************************************)
(* A model of scripts/validate.py (the claude-dotfiles validator).         *)
(*                                                                         *)
(* Texts.  A text is a sequence of atoms.  An atom is either one           *)
(* character ("-", ":", "\n", " ", ...) or an indivisible run of letters   *)
(* ("name", "y*63" = sixty-three times the letter y).  Width gives the     *)
(* number of characters of an atom, PyLen the number of characters of a    *)
(* text.  The code never cuts a text inside a run of letters: it cuts at   *)
(* line breaks, colons, white space and delimiter offsets only, so every   *)
(* operation below acts on atoms exactly as the code acts on characters.   *)
(* The vocabulary is uniquely decodable (no run is a concatenation of      *)
(* other atoms), so equal strings are equal sequences.                     *)
(***************************************************************************)
EXTENDS Integers, Sequences, FiniteSets, TLC

VARIABLES
    content,        \* validate_yaml_frontmatter: the text handed to it
    pc,             \* control position of the operation being run
    lines,          \* the lines of frontmatter_text not yet visited by the loop
    line,           \* the line visited by the last loop iteration
    data,           \* dict: sequence of [k, v] in insertion order
    current_key,    \* key of the block scalar being collected, or NoneKey
    current_value,  \* list of the collected lines
    in_multiline,   \* block-scalar mode
    fm,             \* the tuple returned: [valid, err, data]
    file,           \* a schema validator: the file it is called on
    findings,       \* a schema validator: the list of messages it returns
    fs,             \* the files on disk
    target,         \* main: the path to validate
    todo,           \* validate_directory: the files its current loop has left
    files_checked,  \* the counters of the run
    errors,
    warnings,
    log,            \* the validator calls made, in order: [op, path, errs, warns]
    exit_code,      \* sys.exit(...), or -1 while the process runs
    links,          \* validate_markdown_links: the (text, link) pairs left to look at
    link,           \* validate_markdown_links: the pair of the last iteration
    repo_root,      \* validate_markdown_links: its second argument
    argv,           \* the hook: sys.argv[1:]
    protected       \* the hook: what is_protected returned, [blocked, reason]

vars == <<content, pc, lines, line, data, current_key, current_value,
          in_multiline, fm, file, findings, fs, target, todo, files_checked,
          errors, warnings, log, exit_code, links, link, repo_root,
          argv, protected>>

\* what each machine leaves alone
fmVars == <<content, lines, line, data, current_key, current_value,
            in_multiline, fm>>

valVars == <<file, findings>>

runVars == <<fs, target, todo, files_checked, errors, warnings, log, exit_code>>

linkVars == <<links, link, repo_root>>

hookVars == <<argv, protected>>

-----------------------------------------------------------------------------
(* Characters *)

NL == "\n"
SP == " "
TAB == "\t"
DASH == "-"
COLON == ":"
PIPE == "|"
GT == ">"
HASH == "#"

\* str.strip() and the regex class \s
Whitespace == {SP, TAB, NL}

\* runs of lowercase letters, and single lowercase letters
LowerAtoms == {"a", "k", "j", "v", "w", "name", "description",
               "y*63", "q*96", "p*99", "z*100", "u*1024"}
UpperAtoms == {"M"}
DigitAtoms == {"2"}

Width(a) ==
    CASE a = "name" -> 4
      [] a = "description" -> 11
      [] a = "y*63" -> 63
      [] a = "q*96" -> 96
      [] a = "p*99" -> 99
      [] a = "z*100" -> 100
      [] a = "u*1024" -> 1024
      [] OTHER -> 1

RECURSIVE PyLen(_)
\* len(s)
PyLen(s) == IF s = <<>> THEN 0 ELSE Width(Head(s)) + PyLen(Tail(s))

-----------------------------------------------------------------------------
(* str methods *)

\* s[i:] with a 0-based atom index i
From(s, i) == SubSeq(s, i + 1, Len(s))

\* s.startswith(p)
StartsWith(s, p) == Len(s) >= Len(p) /\ SubSeq(s, 1, Len(p)) = p

RECURSIVE LStrip(_)
LStrip(s) == IF s # <<>> /\ Head(s) \in Whitespace THEN LStrip(Tail(s)) ELSE s

RECURSIVE RStrip(_)
RStrip(s) ==
    IF s # <<>> /\ s[Len(s)] \in Whitespace THEN RStrip(SubSeq(s, 1, Len(s) - 1)) ELSE s

\* s.strip()
Strip(s) == RStrip(LStrip(s))

\* s.find(sub, start): the 0-based index of the first occurrence at or after
\* start, or -1
Find(s, sub, start) ==
    LET hits == {i \in start..(Len(s) - Len(sub)) : SubSeq(s, i + 1, i + Len(sub)) = sub}
    IN  IF hits = {} THEN -1 ELSE CHOOSE i \in hits : \A j \in hits : i <= j

RECURSIVE Split(_, _)
\* s.split(sep) for a one-character separator
Split(s, sep) ==
    LET i == Find(s, <<sep>>, 0)
    IN  IF i = -1 THEN <<s>>
        ELSE <<SubSeq(s, 1, i)>> \o Split(From(s, i + 1), sep)

RECURSIVE Join(_, _)
\* sep.join(list)
Join(list, sep) ==
    IF list = <<>> THEN <<>>
    ELSE IF Len(list) = 1 THEN list[1]
    ELSE list[1] \o <<sep>> \o Join(Tail(list), sep)

\* s.rpartition(':') in the place of s.partition(':')
PartitionAtLastColon(s) ==
    LET hits == {i \in 1..Len(s) : s[i] = COLON}
        i == CHOOSE i \in hits : \A j \in hits : j <= i
    IN  IF hits = {} THEN [before |-> s, after |-> <<>>]
        ELSE [before |-> SubSeq(s, 1, i - 1), after |-> From(s, i)]

\* s.partition(':'): the text before the first colon and the text after it
\* (the whole text and '' when there is no colon)
Partition(s) ==
    LET i == Find(s, <<COLON>>, 0)
    IN  IF i = -1 THEN [before |-> s, after |-> <<>>]
        ELSE [before |-> SubSeq(s, 1, i), after |-> From(s, i + 1)]

-----------------------------------------------------------------------------
(* dict, kept in insertion order as Python keeps it *)

DictHas(d, k) == \E i \in 1..Len(d) : d[i].k = k

DictGet(d, k) == d[CHOOSE i \in 1..Len(d) : d[i].k = k].v

\* a list of pairs in the place of a dict: a key written twice is kept twice
DictSetAppend(d, k, v) == Append(d, [k |-> k, v |-> v])

\* d[k] = v
DictSet(d, k, v) ==
    IF DictHas(d, k)
    THEN [i \in 1..Len(d) |-> IF d[i].k = k THEN [k |-> k, v |-> v] ELSE d[i]]
    ELSE Append(d, [k |-> k, v |-> v])

-----------------------------------------------------------------------------
(* validate_yaml_frontmatter *)

\* None, as the value of current_key
NoneKey == <<"<None>">>

\* truth value of current_key: None and '' are false
Truthy(k) == k # NoneKey /\ k # <<>>

OPENING == <<DASH, DASH, DASH>>

\* the pattern '\n---\n' in the place of r'\n---\s*\n'
ClosingAtExact(s, i) ==
    /\ i + 5 <= Len(s)
    /\ SubSeq(s, i + 1, i + 5) = <<NL, DASH, DASH, DASH, NL>>

\* re.match(r'\n---\s*\n') at the 0-based index i of s
ClosingAt(s, i) ==
    /\ i + 4 <= Len(s)
    /\ SubSeq(s, i + 1, i + 4) = <<NL, DASH, DASH, DASH>>
    /\ \E j \in (i + 5)..Len(s) :
          /\ s[j] = NL
          /\ \A h \in (i + 5)..(j - 1) : s[h] \in Whitespace

\* re.search(r'\n---\s*\n', s).start(), or -1 when there is no match
SearchClosing(s) ==
    LET hits == {i \in 0..(Len(s) - 1) : ClosingAt(s, i)}
    IN  IF hits = {} THEN -1 ELSE CHOOSE i \in hits : \A j \in hits : i <= j

MISSING_FRONTMATTER == "Missing YAML frontmatter (file should start with ---)"
MISSING_CLOSING == "Missing closing --- for frontmatter"
NoErr == "None"

\* content[3:end_match.start() + 3]
FrontmatterText(c) == SubSeq(c, 4, SearchClosing(From(c, 3)) + 3)

\* the state of the loop over the lines
LoopState == [data |-> data, current_key |-> current_key,
              current_value |-> current_value, in_multiline |-> in_multiline]

LoopStart == [data |-> <<>>, current_key |-> NoneKey,
              current_value |-> <<>>, in_multiline |-> FALSE]

\* if not line.strip()
IsBlank(l) == Strip(l) = <<>>

\* if not line.startswith(' ') and ':' in line
IsKeyLine(l) == ~StartsWith(l, <<SP>>) /\ \E i \in 1..Len(l) : l[i] = COLON

\* data[current_key] = '\n'.join(current_value).strip(), when a block scalar
\* is being collected
Flush(s) ==
    IF Truthy(s.current_key) /\ s.in_multiline
    THEN DictSet(s.data, s.current_key, Strip(Join(s.current_value, NL)))
    ELSE s.data

\* one iteration of 'for line in frontmatter_text.split("\n")'
BlankStep(s, l) ==
    IF s.in_multiline
    THEN [s EXCEPT !.current_value = Append(@, <<>>)]
    ELSE s

\* the key line branch without value = value.strip()
KeyStepRawValue(s, l) ==
    LET p == Partition(l)
        key == Strip(p.before)
        value == p.after
        d == Flush(s)
    IN  IF value = <<PIPE>> \/ value = <<GT>>
        THEN [data |-> d, current_key |-> key, current_value |-> <<>>,
              in_multiline |-> TRUE]
        ELSE IF value # <<>>
        THEN [data |-> DictSet(d, key, value), current_key |-> NoneKey,
              current_value |-> s.current_value, in_multiline |-> FALSE]
        ELSE [data |-> DictSet(d, key, <<>>), current_key |-> s.current_key,
              current_value |-> s.current_value, in_multiline |-> FALSE]

\* the key line branch: if not line.startswith(' ') and ':' in line
KeyStep(s, l) ==
    LET p == Partition(l)
        key == Strip(p.before)
        value == Strip(p.after)
        d == Flush(s)
    IN  IF value = <<PIPE>> \/ value = <<GT>>
        THEN [data |-> d, current_key |-> key, current_value |-> <<>>,
              in_multiline |-> TRUE]
        ELSE IF value # <<>>
        THEN [data |-> DictSet(d, key, value), current_key |-> NoneKey,
              current_value |-> s.current_value, in_multiline |-> FALSE]
        ELSE [data |-> DictSet(d, key, <<>>), current_key |-> s.current_key,
              current_value |-> s.current_value, in_multiline |-> FALSE]

ContinuationStep(s, l) == [s EXCEPT !.current_value = Append(@, Strip(l))]

MapperStep(s, l) ==
    IF IsBlank(l) THEN BlankStep(s, l)
    ELSE IF IsKeyLine(l) THEN KeyStep(s, l)
    ELSE IF s.in_multiline /\ Truthy(s.current_key) THEN ContinuationStep(s, l)
    ELSE s

RECURSIVE MapperLoop(_, _)
MapperLoop(s, ls) ==
    IF ls = <<>> THEN s ELSE MapperLoop(MapperStep(s, Head(ls)), Tail(ls))

\* the body of the try block: the mapping parsed from frontmatter_text
Mapper(text) == Flush(MapperLoop(LoopStart, Split(text, NL)))

\* the function as a whole: (is_valid, error_message, parsed_data)
validate_yaml_frontmatter(c) ==
    IF ~StartsWith(c, OPENING)
    THEN [valid |-> FALSE, err |-> MISSING_FRONTMATTER, data |-> <<>>]
    ELSE IF SearchClosing(From(c, 3)) = -1
    THEN [valid |-> FALSE, err |-> MISSING_CLOSING, data |-> <<>>]
    ELSE [valid |-> TRUE, err |-> NoErr,
          data |-> Mapper(FrontmatterText(c))]

-----------------------------------------------------------------------------
(* Files, and the schema validators *)

\* a path is a sequence of components, a component a text ('SKILL.md' is
\* <<"SKILL", ".md">>); a file is its path, whether open() and read() succeed,
\* and the text read
NoFile == [path |-> <<>>, readable |-> FALSE, content |-> <<>>]

README_MD == <<"README", ".md">>
SKILL_MD == <<"SKILL", ".md">>

\* Path.name and Path.parent
PathName(p) == IF p = <<>> THEN <<>> ELSE p[Len(p)]

PathParent(p) == IF p = <<>> THEN <<>> ELSE SubSeq(p, 1, Len(p) - 1)

\* Path.suffix == ext
HasSuffix(p, ext) == Len(PathName(p)) >= 2 /\ PathName(p)[Len(PathName(p))] = ext

CANNOT_READ == "Cannot read file"
MISSING_NAME == "Missing required field: name"
NAME_TOO_LONG == "name exceeds 64 characters"
NAME_PATTERN == "name must be lowercase with hyphens"
MISSING_DESCRIPTION == "Missing required field: description"
DESCRIPTION_TOO_LONG == "description exceeds 1024 characters"
SKILL_BODY_SHORT == "SKILL.md body seems too short (< 100 chars)"
RULE_NO_HEADING == "Rule file should have a top-level heading (# Title)"
RULE_SHORT == "Rule file seems too short (< 200 chars)"
AGENT_NO_FRONTMATTER == "Agent file should have YAML frontmatter (---)"
AGENT_BODY_SHORT == "Agent body seems too short (< 100 chars)"
COMMAND_NO_HEADING == "Command file should have a top-level heading"
COMMAND_SHORT == "Command file seems too short (< 100 chars)"

MAX_NAME == 64
MAX_DESCRIPTION == 1024
MIN_BODY == 100
MIN_RULE == 200
MIN_COMMAND == 100

NAME == <<"name">>
DESCRIPTION == <<"description">>

\* the pattern with re.IGNORECASE
NamePatternAnyCase(n) ==
    /\ n # <<>>
    /\ n[1] \in LowerAtoms \cup UpperAtoms
    /\ \E p \in 1..Len(n) :
          /\ \A i \in 2..p : n[i] \in LowerAtoms \cup UpperAtoms \cup DigitAtoms \cup {DASH}
          /\ p = Len(n) \/ (p = Len(n) - 1 /\ n[Len(n)] = NL)

\* re.match(r'^[a-z][a-z0-9-]*$', name): '$' is the end of the text, or the
\* place before a line break that ends the text
NamePattern(n) ==
    /\ n # <<>>
    /\ n[1] \in LowerAtoms
    /\ \E p \in 1..Len(n) :
          /\ \A i \in 2..p : n[i] \in LowerAtoms \cup DigitAtoms \cup {DASH}
          /\ p = Len(n) \/ (p = Len(n) - 1 /\ n[Len(n)] = NL)

\* '>=' in the place of '>'
NameTooLongFrom64(n) == PyLen(n) >= MAX_NAME

\* if len(name) > 64

NameTooLong(n) == PyLen(n) > MAX_NAME

\* the checks of the 'name' field
NameFindings(d) ==
    IF ~DictHas(d, NAME) THEN <<MISSING_NAME>>
    ELSE (IF NameTooLong(DictGet(d, NAME)) THEN <<NAME_TOO_LONG>> ELSE <<>>)
         \o (IF ~NamePattern(DictGet(d, NAME)) THEN <<NAME_PATTERN>> ELSE <<>>)

\* the checks of the 'description' field
DescriptionFindings(d) ==
    IF ~DictHas(d, DESCRIPTION) THEN <<MISSING_DESCRIPTION>>
    ELSE IF PyLen(DictGet(d, DESCRIPTION)) > MAX_DESCRIPTION
    THEN <<DESCRIPTION_TOO_LONG>>
    ELSE <<>>

\* frontmatter_end = content.find('\n---\n', 3); if frontmatter_end > 0:
\* body = content[frontmatter_end + 5:].strip(); if len(body) < 100: ...
BodyFindings(c, msg) ==
    LET frontmatter_end == Find(c, <<NL, DASH, DASH, DASH, NL>>, 3)
    IN  IF frontmatter_end > 0 /\ PyLen(Strip(From(c, frontmatter_end + 5))) < MIN_BODY
        THEN <<msg>>
        ELSE <<>>

\* the frontmatter error appended without the 'return errors' that follows it
validate_skill_md_no_return(f) ==
    IF ~f.readable THEN <<CANNOT_READ>>
    ELSE LET r == validate_yaml_frontmatter(f.content)
         IN  (IF ~r.valid THEN <<r.err>> ELSE <<>>)
             \o NameFindings(r.data) \o DescriptionFindings(r.data)
             \o BodyFindings(f.content, SKILL_BODY_SHORT)

validate_skill_md(f) ==
    IF ~f.readable THEN <<CANNOT_READ>>
    ELSE LET r == validate_yaml_frontmatter(f.content)
         IN  IF ~r.valid THEN <<r.err>>
             ELSE NameFindings(r.data) \o DescriptionFindings(r.data)
                  \o BodyFindings(f.content, SKILL_BODY_SHORT)

\* re.search(r'^#\s+\S', content, re.MULTILINE): a match starts at the 1-based
\* position i
HeadingAt(c, i) ==
    /\ i = 1 \/ c[i - 1] = NL
    /\ c[i] = HASH
    /\ \E j \in (i + 2)..Len(c) :
          /\ c[j] \notin Whitespace
          /\ \A h \in (i + 1)..(j - 1) : c[h] \in Whitespace

HasHeading(c) == \E i \in 1..Len(c) : HeadingAt(c, i)

\* the second check under 'elif'
HeadingAndLengthElif(c, min, noHeading, short) ==
    IF ~HasHeading(c) THEN <<noHeading>>
    ELSE IF PyLen(Strip(c)) < min THEN <<short>>
    ELSE <<>>

\* the two checks of a rule or command file, one 'if' each
HeadingAndLength(c, min, noHeading, short) ==
    (IF ~HasHeading(c) THEN <<noHeading>> ELSE <<>>)
    \o (IF PyLen(Strip(c)) < min THEN <<short>> ELSE <<>>)

validate_rule_md(f) ==
    IF ~f.readable THEN <<CANNOT_READ>>
    ELSE IF PathName(f.path) = README_MD THEN <<>>
    ELSE HeadingAndLength(f.content, MIN_RULE, RULE_NO_HEADING, RULE_SHORT)

validate_agent_md(f) ==
    IF ~f.readable THEN <<CANNOT_READ>>
    ELSE IF PathName(f.path) = README_MD THEN <<>>
    ELSE IF ~StartsWith(f.content, OPENING) THEN <<AGENT_NO_FRONTMATTER>>
    ELSE LET r == validate_yaml_frontmatter(f.content)
         IN  IF ~r.valid THEN <<r.err>>
             ELSE (IF ~DictHas(r.data, NAME) THEN <<MISSING_NAME>> ELSE <<>>)
                  \o (IF ~DictHas(r.data, DESCRIPTION) THEN <<MISSING_DESCRIPTION>> ELSE <<>>)
                  \o BodyFindings(f.content, AGENT_BODY_SHORT)

validate_command_md(f) ==
    IF ~f.readable THEN <<CANNOT_READ>>
    ELSE HeadingAndLength(f.content, MIN_COMMAND, COMMAND_NO_HEADING, COMMAND_SHORT)


-----------------------------------------------------------------------------
(* validate_json *)

JSON_SYNTAX_ERROR == "JSON syntax error"
ERROR_READING == "Error reading file"

JSON_EMPTY == <<"{", "}">>
JSON_COMMENT_KEY == <<"{", NL, SP, "\"// k\"", COLON, SP, "\"v\"", NL, "}">>
JSON_TRAILING_COMMA == <<"{", "\"k\"", COLON, "1", ",", NL, "}">>
JSON_LINE_COMMENT == <<"{", NL, "/", "/", SP, "k", NL, "}">>

JSON_EMPTY_LINES == <<"{", NL, NL, "}">>
JSON_NAN == <<"{", "\"k\"", COLON, "NaN", "}">>
\* an integer of 5000 digits, and 200000 nested arrays
JSON_BIG_INT == <<"{", "\"k\"", COLON, "9*5000", "}">>
JSON_DEEP == <<"[*200000", "]*200000">>

JsonTexts ==
    { <<>>, JSON_EMPTY, JSON_COMMENT_KEY, JSON_TRAILING_COMMA, JSON_LINE_COMMENT,
      JSON_EMPTY_LINES, JSON_NAN, JSON_BIG_INT, JSON_DEEP }

\* json.loads of the standard library on the texts of this model: it returns
\* a value, raises json.JSONDecodeError, or raises another exception (the
\* ValueError of the limit on the digits of an integer, RecursionError)
JsonLoads(text) ==
    IF text \in {JSON_EMPTY, JSON_COMMENT_KEY, JSON_EMPTY_LINES, JSON_NAN} THEN "value"
    ELSE IF text \in {JSON_BIG_INT, JSON_DEEP} THEN "Exception"
    ELSE "JSONDecodeError"

\* (is_valid, error_message)
validate_json(f) ==
    IF ~f.readable THEN [valid |-> FALSE, err |-> ERROR_READING]
    ELSE LET cleaned_content == Join(Split(f.content, NL), NL)
             outcome == JsonLoads(cleaned_content)
         IN  IF outcome = "value" THEN [valid |-> TRUE, err |-> NoErr]
             ELSE IF outcome = "JSONDecodeError"
             THEN [valid |-> FALSE, err |-> JSON_SYNTAX_ERROR]
             ELSE [valid |-> FALSE, err |-> ERROR_READING]

-----------------------------------------------------------------------------
(* The file system, and validate_markdown_links *)

\* the directory of the repository, which exists, and a path that does not
ROOT == << <<"repo">> >>
NOWHERE == << <<"repo">>, <<"nowhere">> >>

\* Path.is_file() and Path.is_dir() on the tree made of the files 'files'
IsFile(files, p) == \E f \in files : f.path = p

IsDir(files, p) ==
    \/ Len(p) <= Len(ROOT) /\ SubSeq(ROOT, 1, Len(p)) = p
    \/ \E f \in files : Len(f.path) > Len(p) /\ SubSeq(f.path, 1, Len(p)) = p

\* Path.exists(): the system walks the components; '..' and every component
\* that is not the last one need a directory to start from
RECURSIVE Walk(_, _, _)
Walk(files, cur, comps) ==
    IF comps = <<>> THEN IsDir(files, cur) \/ IsFile(files, cur)
    ELSE /\ IsDir(files, cur)
         /\ Walk(files,
                 IF Head(comps) = <<"..">> THEN PathParent(cur) ELSE Append(cur, Head(comps)),
                 Tail(comps))

\* base / text: the components of the text, without the empty ones and '.'
RECURSIVE Components(_)
Components(ss) ==
    IF ss = <<>> THEN <<>>
    ELSE IF Head(ss) = <<>> \/ Head(ss) = <<".">> THEN Components(Tail(ss))
    ELSE <<Head(ss)>> \o Components(Tail(ss))

\* (base / text).exists(); a text that starts with '/' is an absolute path,
\* and base / text is then that path
Exists(files, base, text) ==
    Walk(files, IF StartsWith(text, <<"/">>) THEN <<>> ELSE base,
         Components(Split(text, "/")))

\* the three backquotes that open and close a code block
FENCE == "<fence>"

RECURSIVE RemoveCodeBlocks(_)
\* re.sub(r'<fence>[\s\S]*?<fence>', '', content)
RemoveCodeBlocks(c) ==
    LET i == Find(c, <<FENCE>>, 0)
        j == IF i = -1 THEN -1 ELSE Find(c, <<FENCE>>, i + 1)
    IN  IF j = -1 THEN c
        ELSE SubSeq(c, 1, i) \o RemoveCodeBlocks(From(c, j + 1))

\* re.match(r'\[([^\]]+)\]\(([^)]+)\)') at the 0-based index i: the indexes of
\* ']' and ')', or <<>> when there is no match
LinkAt(c, i) ==
    LET b == Find(c, <<"]">>, i + 1)
        e == IF b = -1 THEN -1 ELSE Find(c, <<")">>, b + 2)
    IN  IF /\ i < Len(c) /\ c[i + 1] = "["
           /\ b > i + 1
           /\ b + 2 <= Len(c) /\ c[b + 2] = "("
           /\ e > b + 2
        THEN <<b, e>>
        ELSE <<>>

RECURSIVE FindLinks(_, _)
\* re.findall(...): the (text, link) pairs, scanning from the 0-based index i
FindLinks(c, i) ==
    IF i >= Len(c) THEN <<>>
    ELSE LET m == LinkAt(c, i)
         IN  IF m = <<>> THEN FindLinks(c, i + 1)
             ELSE << [text |-> SubSeq(c, i + 2, m[1]),
                      link |-> SubSeq(c, m[1] + 3, m[2])] >>
                  \o FindLinks(c, m[2] + 1)

\* the skips without the one of the links that start with '../../'
SkippedLinkNoParents(url) ==
    \/ StartsWith(url, <<"http://">>) \/ StartsWith(url, <<"https://">>)
    \/ StartsWith(url, <<"mailto:">>)
    \/ StartsWith(url, <<HASH>>)
    \/ url \in {<<"url">>, <<"link">>, <<"badge">>}
    \/ Split(url, HASH)[1] = <<>>

\* the links the loop skips
SkippedLink(url) ==
    \/ StartsWith(url, <<"http://">>) \/ StartsWith(url, <<"https://">>)
    \/ StartsWith(url, <<"mailto:">>)
    \/ StartsWith(url, <<HASH>>)
    \/ url \in {<<"url">>, <<"link">>, <<"badge">>}
    \/ StartsWith(url, <<"..", "/", "..", "/">>)
    \/ Split(url, HASH)[1] = <<>>

\* the target of a link that is not skipped exists
LinkTargetExists(files, file_path, root, url) ==
    LET path_part == Split(url, HASH)[1]
    IN  IF StartsWith(path_part, <<".", "/">>)
        THEN Exists(files, PathParent(file_path), From(path_part, 2))
        ELSE IF StartsWith(path_part, <<"/">>)
        THEN Exists(files, root, From(path_part, 1))
        ELSE Exists(files, PathParent(file_path), path_part)

RECURSIVE BrokenLinks(_, _, _, _)
BrokenLinks(files, file_path, root, pairs) ==
    IF pairs = <<>> THEN <<>>
    ELSE (IF ~SkippedLink(Head(pairs).link)
             /\ ~LinkTargetExists(files, file_path, root, Head(pairs).link)
          THEN <<Head(pairs)>> ELSE <<>>)
         \o BrokenLinks(files, file_path, root, Tail(pairs))

\* 'TEMPLATE' in file_path.name or 'SPEC' in file_path.name
IsTemplateName(n) == \E i \in 1..Len(n) : n[i] \in {"TEMPLATE", "SPEC"}

\* the list of broken links of a file
validate_markdown_links(files, f, root) ==
    IF ~f.readable THEN <<>>
    ELSE IF IsTemplateName(PathName(f.path)) THEN <<>>
    ELSE BrokenLinks(files, f.path, root,
                     FindLinks(RemoveCodeBlocks(f.content), 0))

-----------------------------------------------------------------------------
(* Inputs of the frontmatter machine *)

MaxPieces == 5
MaxLines == 3

RECURSIVE Flatten(_)
Flatten(ss) == IF ss = <<>> THEN <<>> ELSE Head(ss) \o Flatten(Tail(ss))

SeqsUpTo(S, n) == UNION {[1..m -> S] : m \in 0..n}

\* any text made of at most MaxPieces of these pieces
FreePieces == {OPENING, <<NL>>, <<SP>>, <<"a">>, <<DASH>>}

FreeTexts == {Flatten(ps) : ps \in SeqsUpTo(FreePieces, MaxPieces)}

\* the lines a frontmatter block is made of
BlockLines ==
    { <<>>,                                   \* ''
      <<SP>>,                                 \* ' '
      <<"k", COLON, SP, "v">>,                \* 'k: v'
      <<"k", COLON>>,                         \* 'k:'
      <<"k", COLON, SP, PIPE>>,               \* 'k: |'
      <<"j", COLON, SP, GT, SP>>,             \* 'j: > '
      <<"k", COLON, "v", COLON, "w">>,        \* 'k:v:w'
      <<SP, "k", COLON, SP, "v">>,            \* ' k: v'
      <<SP, SP, "v">>,                        \* '  v'
      <<"w">>,                                \* 'w'
      <<SP, "w", SP>>,                        \* ' w '
      <<TAB, "j", SP, COLON, SP, "v", SP>>,   \* '\tj : v '
      <<COLON, SP, "v">>,                     \* ': v'
      <<COLON, SP, PIPE>>,                    \* ': |'
      <<DASH, SP, "v">>,                      \* '- v'
      <<"j", COLON, SP, "[", "v", "]">> }     \* 'j: [v]'

\* '---' + '\n' + the lines joined by '\n' + '\n---\n'
BlockDoc(ls) == OPENING \o <<NL>> \o Join(ls, NL) \o <<NL>> \o OPENING \o <<NL>>

BlockDocs == {BlockDoc(ls) : ls \in SeqsUpTo(BlockLines, MaxLines)}

FMInputs == FreeTexts \cup BlockDocs

-----------------------------------------------------------------------------
(* The frontmatter machine: validate_yaml_frontmatter run step by step *)

\* the variables of a call of the link checker, while none is looked at
NoLink == [text |-> <<>>, link |-> <<>>]

LinkIdle ==
    /\ links = <<>>
    /\ link = NoLink
    /\ repo_root = <<>>

\* the variables of the hook, while it does not run
NotChecked == [blocked |-> FALSE, reason |-> <<>>]

HookIdle ==
    /\ argv = <<>>
    /\ protected = NotChecked

\* the variables of the run, while no run is modelled
RunIdle ==
    /\ fs = {}
    /\ target = <<>>
    /\ todo = {}
    /\ files_checked = 0
    /\ errors = 0
    /\ warnings = 0
    /\ log = <<>>
    /\ exit_code = -1
    /\ LinkIdle
    /\ HookIdle

InitFM ==
    /\ content \in FMInputs
    /\ pc = "start"
    /\ lines = <<>>
    /\ line = <<>>
    /\ data = <<>>
    /\ current_key = NoneKey
    /\ current_value = <<>>
    /\ in_multiline = FALSE
    /\ fm = [valid |-> FALSE, err |-> NoErr, data |-> <<>>]
    /\ file = NoFile
    /\ findings = <<>>
    /\ RunIdle

loopVars == <<data, current_key, current_value, in_multiline>>

\* if not content.startswith('---'): return False, "Missing ...", {}
FMMissing ==
    /\ pc = "start"
    /\ ~StartsWith(content, OPENING)
    /\ fm' = [valid |-> FALSE, err |-> MISSING_FRONTMATTER, data |-> <<>>]
    /\ pc' = "done"
    /\ UNCHANGED <<linkVars, hookVars, content, lines, line, loopVars, valVars, runVars>>

\* if not end_match: return False, "Missing closing ...", {}
FMUnclosed ==
    /\ pc = "start"
    /\ StartsWith(content, OPENING)
    /\ SearchClosing(From(content, 3)) = -1
    /\ fm' = [valid |-> FALSE, err |-> MISSING_CLOSING, data |-> <<>>]
    /\ pc' = "done"
    /\ UNCHANGED <<linkVars, hookVars, content, lines, line, loopVars, valVars, runVars>>

\* frontmatter_text = content[3:end_match.start() + 3]; the loop starts
FMExtract ==
    /\ pc = "start"
    /\ StartsWith(content, OPENING)
    /\ SearchClosing(From(content, 3)) # -1
    /\ lines' = Split(FrontmatterText(content), NL)
    /\ data' = LoopStart.data
    /\ current_key' = LoopStart.current_key
    /\ current_value' = LoopStart.current_value
    /\ in_multiline' = LoopStart.in_multiline
    /\ pc' = "loop"
    /\ UNCHANGED <<linkVars, hookVars, content, line, fm, valVars, runVars>>

\* one iteration of the loop
Iterate(s) ==
    /\ data' = s.data
    /\ current_key' = s.current_key
    /\ current_value' = s.current_value
    /\ in_multiline' = s.in_multiline
    /\ line' = Head(lines)
    /\ lines' = Tail(lines)
    /\ UNCHANGED <<linkVars, hookVars, content, pc, fm, valVars, runVars>>

LoopBlank ==
    /\ pc = "loop" /\ lines # <<>>
    /\ IsBlank(Head(lines))
    /\ Iterate(MapperStep(LoopState, Head(lines)))

LoopKey ==
    /\ pc = "loop" /\ lines # <<>>
    /\ ~IsBlank(Head(lines)) /\ IsKeyLine(Head(lines))
    /\ Iterate(MapperStep(LoopState, Head(lines)))

LoopContinuation ==
    /\ pc = "loop" /\ lines # <<>>
    /\ ~IsBlank(Head(lines)) /\ ~IsKeyLine(Head(lines))
    /\ in_multiline /\ Truthy(current_key)
    /\ Iterate(MapperStep(LoopState, Head(lines)))

\* a line that is neither blank, nor a key line, nor a continuation: no branch
LoopOther ==
    /\ pc = "loop" /\ lines # <<>>
    /\ ~IsBlank(Head(lines)) /\ ~IsKeyLine(Head(lines))
    /\ ~(in_multiline /\ Truthy(current_key))
    /\ Iterate(MapperStep(LoopState, Head(lines)))

\* after the loop: the last flush, and return True, None, data
LoopEnd ==
    /\ pc = "loop" /\ lines = <<>>
    /\ data' = Flush(LoopState)
    /\ fm' = [valid |-> TRUE, err |-> NoErr, data |-> Flush(LoopState)]
    /\ pc' = "done"
    /\ UNCHANGED <<linkVars, hookVars, content, lines, line, current_key, current_value, in_multiline, valVars, runVars>>

NextFM ==
    \/ FMMissing
    \/ FMUnclosed
    \/ FMExtract
    \/ LoopBlank
    \/ LoopKey
    \/ LoopContinuation
    \/ LoopOther
    \/ LoopEnd

SpecFM == InitFM /\ [][NextFM]_vars

\* the step-by-step run returns what the function returns
FMAgrees == pc = "done" => fm = validate_yaml_frontmatter(content)

-----------------------------------------------------------------------------
(* The validator machine: one schema validator called on one file *)

MaxFill == 2

\* runs of letters a body or a rule is filled with
FillAtoms == {<<"q*96">>, <<"p*99">>, <<"z*100">>, <<"a">>}

Fillers == {Flatten(ps) : ps \in SeqsUpTo(FillAtoms, MaxFill)}

NameLines ==
    { <<>>,                                                   \* no name
      <<NAME[1], COLON, SP, "a", NL>>,                        \* name: a
      <<NAME[1], COLON, NL>>,                                 \* name:
      <<NAME[1], COLON, SP, "y*63", "a", NL>>,                \* 64 letters
      <<NAME[1], COLON, SP, "y*63", "a", "a", NL>>,           \* 65 letters
      <<NAME[1], COLON, SP, "M", DASH, "a", NL>>,             \* name: M-a
      <<NAME[1], COLON, SP, "a", DASH, "2", NL>>,             \* name: a-2
      <<NAME[1], COLON, SP, "2", "a", NL>>,                   \* name: 2a
      <<NAME[1], COLON, SP, "y*63", "M", NL>>,                \* 64, one capital
      <<NAME[1], COLON, SP, "M", "y*63", "a", NL>>,           \* 65, one capital
      <<NAME[1], COLON, SP, PIPE, NL, SP, "a", NL, SP, "a", NL>> }  \* name: |  a  a

DescriptionLines ==
    { <<>>,
      <<DESCRIPTION[1], COLON, SP, "v", NL>>,
      <<DESCRIPTION[1], COLON, SP, "u*1024", NL>>,
      <<DESCRIPTION[1], COLON, SP, "u*1024", "a", NL>> }

Closings == { <<DASH, DASH, DASH, NL>>, <<DASH, DASH, DASH, SP, NL>> }

Bodies ==
    Fillers
    \cup { <<SP, "z*100", NL>>,
           <<NL, "p*99", SP>>,
           <<"z*100", NL, DASH, DASH, DASH, NL, "a">> }

\* documents with a frontmatter block
FrontmatterDocs ==
    { OPENING \o <<NL>> \o n \o d \o c \o b :
        n \in NameLines, d \in DescriptionLines, c \in Closings, b \in Bodies }

Headings ==
    { <<>>,
      <<HASH, SP, "a", NL>>,          \* '# a'
      <<HASH, "a", NL>>,              \* '#a'
      <<HASH, NL, "a", NL>>,          \* '#' and 'a' on the next line
      <<HASH, SP, NL>>,               \* '# '
      <<SP, HASH, SP, "a", NL>>,      \* ' # a'
      <<"a", NL, HASH, TAB, "a", NL>>,\* 'a' and then '#\ta'
      <<"a", HASH, SP, "a", NL>> }    \* 'a# a'

\* documents without a frontmatter block
PlainDocs == { h \o b : h \in Headings, b \in Fillers }

\* documents that open a frontmatter block and never close it: no '---' line
\* follows, or the last line is '---' without a line break after it
UnclosedEnds == { <<>>, <<"z*100">>, OPENING, <<"z*100", NL>> \o OPENING }

UnclosedDocs ==
    { OPENING \o <<NL>> \o n \o d \o e :
        n \in NameLines, d \in DescriptionLines, e \in UnclosedEnds }

FileNames == {SKILL_MD, README_MD, <<"x", ".md">>}

ValidatorInputs ==
    { [path |-> <<n>>, readable |-> TRUE, content |-> c] :
        n \in FileNames, c \in FrontmatterDocs \cup PlainDocs \cup UnclosedDocs }
    \cup { [path |-> <<n>>, readable |-> FALSE, content |-> <<>>] : n \in FileNames }

\* the files validate_json is called on
JsonInputs ==
    { [path |-> << <<"settings", ".json">> >>, readable |-> TRUE, content |-> c] :
        c \in JsonTexts }
    \cup { [path |-> << <<"settings", ".json">> >>, readable |-> FALSE, content |-> <<>>] }

InitVal ==
    /\ \/ file \in ValidatorInputs /\ pc \in {"skill", "rule", "agent", "command"}
       \/ file \in JsonInputs /\ pc = "json"
    /\ findings = <<>>
    /\ content = <<>>
    /\ lines = <<>>
    /\ line = <<>>
    /\ data = <<>>
    /\ current_key = NoneKey
    /\ current_value = <<>>
    /\ in_multiline = FALSE
    /\ fm = [valid |-> FALSE, err |-> NoErr, data |-> <<>>]
    /\ RunIdle

Return(kind, errs) ==
    /\ pc = kind
    /\ findings' = errs
    /\ pc' = kind \o " returned"
    /\ UNCHANGED <<linkVars, hookVars, file, fmVars, runVars>>

ValidateSkill == Return("skill", validate_skill_md(file))

ValidateRule == Return("rule", validate_rule_md(file))

ValidateAgent == Return("agent", validate_agent_md(file))

ValidateCommand == Return("command", validate_command_md(file))

\* validate_json: no finding for (True, None), else the kind of the message
ValidateJson ==
    Return("json", IF validate_json(file).valid THEN <<>> ELSE <<validate_json(file).err>>)

NextVal ==
    \/ ValidateSkill
    \/ ValidateRule
    \/ ValidateAgent
    \/ ValidateCommand
    \/ ValidateJson

SpecVal == InitVal /\ [][NextVal]_vars


-----------------------------------------------------------------------------
(* The run: main, validate_file and validate_directory *)

MaxFiles == 3

SKILL_OK ==
    OPENING \o <<NL, NAME[1], COLON, SP, "a", NL, DESCRIPTION[1], COLON, SP, "v", NL>>
    \o OPENING \o <<NL, "z*100">>
SKILL_BAD == OPENING \o <<NL, NAME[1], COLON, SP, "M", NL>> \o OPENING \o <<NL, "a">>
RULE_OK == <<HASH, SP, "a", NL, "z*100", "z*100">>
COMMAND_OK == <<HASH, SP, "a", NL, "z*100">>
WORD == <<"a">>
BROKEN_LINK == <<"[", "a", "]", "(", "missing", ".md", ")">>
SKILL_LINK == SKILL_OK \o <<NL>> \o BROKEN_LINK
ROOT_LINK == <<"[", "c", "]", "(", "/", "README", ".md", ")">>
DOC_LINKS ==
    <<"[", "a", "]", "(", ".", "/", "missing", ".md", ")", NL,
      "[", "b", "]", "(", "..", "/", "..", "/", "issues", ")", NL,
      "[", "c", "]", "(", "/", "README", ".md", ")", NL,
      FENCE, "[", "d", "]", "(", "missing", ")", FENCE, NL,
      "[", "e", "]", "(", "https://", "a", ")">>

At(rel, readable, text) == [path |-> ROOT \o rel, readable |-> readable, content |-> text]

\* a file of the directory the paths start from: the working directory of a
\* run given a relative path, the top of the file system of a run given an
\* absolute one
Top(rel, text) == [path |-> rel, readable |-> TRUE, content |-> text]

\* the files a repository is made of
Catalogue ==
    { At(<< <<"settings", ".json">> >>, TRUE, JSON_COMMENT_KEY),
      At(<< <<"settings", ".json">> >>, TRUE, JSON_TRAILING_COMMA),
      At(<< <<"settings", ".json">> >>, FALSE, <<>>),
      At(<< <<"node_modules">>, <<"p", ".json">> >>, TRUE, JSON_TRAILING_COMMA),
      At(<< <<".git", "hub">>, <<"w", ".json">> >>, TRUE, JSON_LINE_COMMENT),
      At(<< <<"skills">>, SKILL_MD >>, TRUE, SKILL_OK),
      At(<< <<"skills">>, SKILL_MD >>, TRUE, SKILL_BAD),
      At(<< <<"skills">>, SKILL_MD >>, TRUE, SKILL_LINK),
      At(<< <<"node_modules">>, SKILL_MD >>, TRUE, SKILL_BAD),
      At(<< <<"rules">>, SKILL_MD >>, TRUE, SKILL_BAD),
      At(<< <<"rules">>, <<"r", ".md">> >>, TRUE, RULE_OK),
      At(<< <<"rules">>, <<"r", ".md">> >>, TRUE, WORD),
      At(<< <<"rules">>, README_MD >>, TRUE, WORD),
      At(<< <<"rules">>, README_MD >>, FALSE, <<>>),
      At(<< <<"agents">>, README_MD >>, TRUE, WORD),
      At(<< <<"agents">>, <<"a", ".md">> >>, TRUE, SKILL_OK),
      At(<< <<"agents">>, <<"a", ".md">> >>, TRUE, WORD),
      At(<< <<"commands">>, <<"c", ".md">> >>, TRUE, COMMAND_OK),
      At(<< <<"commands">>, <<"c", ".md">> >>, TRUE, WORD),
      At(<< <<"commands">>, <<"x", ".git", ".md">> >>, TRUE, BROKEN_LINK),
      At(<< <<"docs">>, <<"d", ".md">> >>, TRUE, DOC_LINKS),
      At(<< <<"docs">>, <<"d", ".md">> >>, FALSE, <<>>),
      At(<< README_MD >>, TRUE, WORD),
      At(<< <<"notes", ".txt">> >>, TRUE, WORD),
      Top(<< README_MD >>, WORD),
      Top(<< <<"guide">>, <<"g", ".md">> >>, ROOT_LINK) }

\* a file system holds one file at a path
FileSystems ==
    { files \in SUBSET Catalogue :
        /\ Cardinality(files) <= MaxFiles
        /\ \A f, g \in files : f.path = g.path => f = g }

InitRun ==
    /\ fs \in FileSystems
    /\ target \in {ROOT, NOWHERE} \cup {f.path : f \in fs}
    /\ pc = "main"
    /\ todo = {}
    /\ files_checked = 0
    /\ errors = 0
    /\ warnings = 0
    /\ log = <<>>
    /\ exit_code = -1
    /\ LinkIdle
    /\ HookIdle
    /\ file = NoFile
    /\ findings = <<>>
    /\ content = <<>>
    /\ lines = <<>>
    /\ line = <<>>
    /\ data = <<>>
    /\ current_key = NoneKey
    /\ current_value = <<>>
    /\ in_multiline = FALSE
    /\ fm = [valid |-> FALSE, err |-> NoErr, data |-> <<>>]

\* needle in str(path)
InPathStr(needle, p) == \E i \in 1..Len(p) : \E j \in 1..Len(p[i]) : p[i][j] = needle

\* if 'node_modules' in str(f) or '.git' in str(f): continue
Excluded(p) == InPathStr("node_modules", p) \/ InPathStr(".git", p)

\* find_files(root, '*' + ext) and find_files(root, 'SKILL.md'): root.rglob
Under(dir, p) == Len(p) > Len(dir) /\ SubSeq(p, 1, Len(dir)) = dir

FindBySuffix(dir, ext) == {f \in fs : Under(dir, f.path) /\ HasSuffix(f.path, ext)}

FindByName(dir, name) == {f \in fs : Under(dir, f.path) /\ PathName(f.path) = name}

\* the list a phase of validate_directory loops over
PhaseFiles(phase) ==
    CASE phase = "json" -> FindBySuffix(target, ".json")
      [] phase = "skill" -> FindByName(target, SKILL_MD)
      [] phase = "rule" -> FindBySuffix(Append(target, <<"rules">>), ".md")
      [] phase = "agent" -> FindBySuffix(Append(target, <<"agents">>), ".md")
      [] phase = "command" -> FindBySuffix(Append(target, <<"commands">>), ".md")
      [] phase = "links" -> FindBySuffix(target, ".md")
      [] OTHER -> {}

\* the loop over the rule files placed before the loop over the skill files
NextPhaseRulesFirst(phase) ==
    CASE phase = "json" -> "rule"
      [] phase = "rule" -> "skill"
      [] phase = "skill" -> "agent"
      [] phase = "agent" -> "command"
      [] phase = "command" -> "links"
      [] phase = "links" -> "summary"

NextPhase(phase) ==
    CASE phase = "json" -> "skill"
      [] phase = "skill" -> "rule"
      [] phase = "rule" -> "agent"
      [] phase = "agent" -> "command"
      [] phase = "command" -> "links"
      [] phase = "links" -> "summary"

\* if not target.exists(): error(...); sys.exit(1)
MainMissing ==
    /\ pc = "main"
    /\ ~Exists(fs, target, <<>>)
    /\ exit_code' = 1
    /\ pc' = "exit"
    /\ UNCHANGED <<linkVars, hookVars, fmVars, valVars, fs, target, todo, files_checked, errors, warnings, log>>

\* the repository root validate_file looks for: the nearest directory above
\* the file that holds '.git' or 'README.md', else the directory of the file
RECURSIVE FindRepoRoot(_, _)
FindRepoRoot(cur, default) ==
    IF cur = <<>> THEN default
    ELSE IF IsFile(fs, Append(cur, README_MD)) \/ IsDir(fs, Append(cur, README_MD))
            \/ IsFile(fs, Append(cur, <<".git">>)) \/ IsDir(fs, Append(cur, <<".git">>))
    THEN cur
    ELSE FindRepoRoot(PathParent(cur), default)

\* the '.md' branch tried before the 'SKILL.md' branch
validate_file_suffix_first(f) ==
    IF HasSuffix(f.path, ".json")
    THEN [errors |-> IF validate_json(f).valid THEN 0 ELSE 1, warnings |-> 0, op |-> "json"]
    ELSE IF HasSuffix(f.path, ".md")
    THEN [errors |-> 0,
          warnings |-> Len(validate_markdown_links(fs, f,
                               FindRepoRoot(PathParent(f.path), PathParent(f.path)))),
          op |-> "links"]
    ELSE IF PathName(f.path) = SKILL_MD
    THEN [errors |-> Len(validate_skill_md(f)), warnings |-> 0, op |-> "skill"]
    ELSE [errors |-> 0, warnings |-> 0, op |-> "skip"]

\* validate_file: [errors, warnings, op]
validate_file(f) ==
    IF HasSuffix(f.path, ".json")
    THEN [errors |-> IF validate_json(f).valid THEN 0 ELSE 1, warnings |-> 0, op |-> "json"]
    ELSE IF PathName(f.path) = SKILL_MD
    THEN [errors |-> Len(validate_skill_md(f)), warnings |-> 0, op |-> "skill"]
    ELSE IF HasSuffix(f.path, ".md")
    THEN [errors |-> 0,
          warnings |-> Len(validate_markdown_links(fs, f,
                               FindRepoRoot(PathParent(f.path), PathParent(f.path)))),
          op |-> "links"]
    ELSE [errors |-> 0, warnings |-> 0, op |-> "skip"]

\* if target.is_file(): errors, warnings = validate_file(target); files_checked = 1
MainFile ==
    /\ pc = "main"
    /\ IsFile(fs, target)
    /\ LET f == CHOOSE f \in fs : f.path = target
           r == validate_file(f)
       IN  /\ errors' = r.errors
           /\ warnings' = r.warnings
           /\ log' = Append(log, [op |-> r.op, path |-> f.path,
                                  errs |-> r.errors, warns |-> r.warnings])
    /\ files_checked' = 1
    /\ pc' = "summary"
    /\ UNCHANGED <<linkVars, hookVars, fmVars, valVars, fs, target, todo, exit_code>>

\* else: validate_directory(target) starts with its JSON files
MainDirectory ==
    /\ pc = "main"
    /\ IsDir(fs, target)
    /\ pc' = "json"
    /\ todo' = PhaseFiles("json")
    /\ UNCHANGED <<linkVars, hookVars, fmVars, valVars, fs, target, files_checked, errors, warnings, log, exit_code>>

\* the counters set to the findings of the file, not increased by them
VisitLastWins(phase, f, skipped, checked, errs, warns) ==
    /\ pc = phase
    /\ f \in todo
    /\ todo' = todo \ {f}
    /\ files_checked' = files_checked + (IF skipped THEN 0 ELSE checked)
    /\ errors' = IF skipped THEN errors ELSE errs
    /\ warnings' = IF skipped THEN warnings ELSE warns
    /\ log' = IF skipped THEN log
              ELSE Append(log, [op |-> phase, path |-> f.path, errs |-> errs, warns |-> warns])
    /\ UNCHANGED <<linkVars, hookVars, fmVars, valVars, fs, target, pc, exit_code>>

\* one iteration of a loop of validate_directory
Visit(phase, f, skipped, checked, errs, warns) ==
    /\ pc = phase
    /\ f \in todo
    /\ todo' = todo \ {f}
    /\ files_checked' = files_checked + (IF skipped THEN 0 ELSE checked)
    /\ errors' = errors + (IF skipped THEN 0 ELSE errs)
    /\ warnings' = warnings + (IF skipped THEN 0 ELSE warns)
    /\ log' = IF skipped THEN log
              ELSE Append(log, [op |-> phase, path |-> f.path, errs |-> errs, warns |-> warns])
    /\ UNCHANGED <<linkVars, hookVars, fmVars, valVars, fs, target, pc, exit_code>>

DirJson ==
    \E f \in todo :
        Visit("json", f, Excluded(f.path), 1, IF validate_json(f).valid THEN 0 ELSE 1, 0)

\* 'errors += 1' for a skill file with findings, in the place of
\* 'errors += len(errs)'
DirSkillOneError ==
    \E f \in todo :
        Visit("skill", f, FALSE, 1, IF validate_skill_md(f) = <<>> THEN 0 ELSE 1, 0)

DirSkill ==
    \E f \in todo : Visit("skill", f, FALSE, 1, Len(validate_skill_md(f)), 0)

\* the loop over the rule files without its 'continue' for README.md
DirRuleNoSkip ==
    \E f \in todo : Visit("rule", f, FALSE, 1, Len(validate_rule_md(f)), 0)

DirRule ==
    \E f \in todo :
        Visit("rule", f, PathName(f.path) = README_MD, 1, Len(validate_rule_md(f)), 0)

DirAgent ==
    \E f \in todo :
        Visit("agent", f, PathName(f.path) = README_MD, 1, Len(validate_agent_md(f)), 0)

DirCommand ==
    \E f \in todo : Visit("command", f, FALSE, 1, Len(validate_command_md(f)), 0)

\* broken links counted as errors
DirLinksAsErrors ==
    \E f \in todo :
        Visit("links", f, Excluded(f.path), 0,
              Len(validate_markdown_links(fs, f, target)), 0)

\* for md_file in md_files: every broken link is a warning
DirLinks ==
    \E f \in todo :
        Visit("links", f, Excluded(f.path), 0, 0,
              Len(validate_markdown_links(fs, f, target)))

\* a loop of validate_directory is over: the next list is found, and after the
\* last loop the counters are returned
DirNext ==
    /\ pc \in {"json", "skill", "rule", "agent", "command", "links"}
    /\ todo = {}
    /\ pc' = NextPhase(pc)
    /\ todo' = PhaseFiles(NextPhase(pc))
    /\ UNCHANGED <<linkVars, hookVars, fmVars, valVars, fs, target, files_checked, errors, warnings, log, exit_code>>

\* warnings failing the run as errors do
ExitOnAnyFinding == IF errors + warnings > 0 THEN 1 ELSE 0

\* the summary is printed; sys.exit(1) if errors > 0, else sys.exit(0)
ExitStatus == IF errors > 0 THEN 1 ELSE 0

MainExit ==
    /\ pc = "summary"
    /\ exit_code' = ExitStatus
    /\ pc' = "exit"
    /\ UNCHANGED <<linkVars, hookVars, fmVars, valVars, fs, target, todo, files_checked, errors, warnings, log>>

Next ==
    \/ MainMissing
    \/ MainFile
    \/ MainDirectory
    \/ DirJson
    \/ DirSkill
    \/ DirRule
    \/ DirAgent
    \/ DirCommand
    \/ DirLinks
    \/ DirNext
    \/ MainExit

Spec == InitRun /\ [][Next]_vars

-----------------------------------------------------------------------------
(* The link machine: validate_markdown_links called on one document *)

MaxLinks == 2

DOCS == ROOT \o << <<"docs">> >>

\* the link targets a document is written with
LinkTargets ==
    { <<"http://", "x">>, <<"https://", "x">>, <<"mailto:", "x">>,
      <<HASH, "s">>,
      <<"url">>, <<"link">>, <<"badge">>,
      <<"..", "/", "..", "/", "issues">>,
      <<".", "/", "x", ".md">>,                     \* ./x.md
      <<".", "/", "x", ".md", HASH, "s">>,          \* ./x.md#s
      <<"x", ".md">>,                               \* x.md
      <<"x", ".md", HASH, "s", HASH, "s">>,         \* x.md#s#s
      <<"/", "x", ".md">>,                          \* /x.md
      <<"/", "docs", "/", "x", ".md">>,             \* /docs/x.md
      <<"..", "/", "x", ".md">>,                    \* ../x.md
      <<"x", ".md", "/", "..", "/", "x", ".md">>,   \* x.md/../x.md
      <<".", "/", "/", "x", ".md">>,                \* .//x.md
      <<"/", "/", "docs", "/", "x", ".md">>,        \* //docs/x.md
      <<"url", "x">>,                               \* urlx
      <<"HTTP://", "x">>,
      <<".", "/">> }                                \* ./

\* [a](target)
LinkText(t) == <<"[", "a", "]", "(">> \o t \o <<")">>

\* documents of up to MaxLinks links, one per line, and documents whose link
\* stands in a code block, behind an unclosed '[', or has an empty target
LinkDocs ==
    { Join([i \in 1..Len(ts) |-> LinkText(ts[i])], NL) :
        ts \in SeqsUpTo(LinkTargets, MaxLinks) }
    \cup { <<FENCE>> \o LinkText(<<"x", ".md">>) \o <<FENCE, NL>> \o LinkText(<<"/", "x", ".md">>),
           <<"[">> \o LinkText(<<"x", ".md">>),
           <<"[", "a", "]", "(", ")">> }

\* the files that may exist beside the document
LinkNeighbours ==
    { [path |-> DOCS \o << <<"x", ".md">> >>, readable |-> TRUE, content |-> WORD],
      [path |-> ROOT \o << <<"x", ".md">> >>, readable |-> TRUE, content |-> WORD],
      [path |-> << <<"x", ".md">> >>, readable |-> TRUE, content |-> WORD] }

LinkFiles ==
    { [path |-> DOCS \o << <<"d", ".md">> >>, readable |-> TRUE, content |-> c] : c \in LinkDocs }
    \cup { [path |-> DOCS \o << <<"d", ".md">> >>, readable |-> FALSE, content |-> <<>>],
           [path |-> DOCS \o << <<"TEMPLATE", ".md">> >>, readable |-> TRUE,
            content |-> LinkText(<<"x", ".md">>)],
           [path |-> DOCS \o << <<"a", "SPEC", ".md">> >>, readable |-> TRUE,
            content |-> LinkText(<<"x", ".md">>)] }

InitLink ==
    /\ file \in LinkFiles
    /\ \E others \in SUBSET LinkNeighbours : fs = {file} \cup others
    /\ repo_root \in {ROOT, DOCS}
    /\ links = <<>>
    /\ link = NoLink
    /\ findings = <<>>
    /\ pc = "open"
    /\ content = <<>>
    /\ lines = <<>>
    /\ line = <<>>
    /\ data = <<>>
    /\ current_key = NoneKey
    /\ current_value = <<>>
    /\ in_multiline = FALSE
    /\ fm = [valid |-> FALSE, err |-> NoErr, data |-> <<>>]
    /\ target = <<>>
    /\ todo = {}
    /\ files_checked = 0
    /\ errors = 0
    /\ warnings = 0
    /\ log = <<>>
    /\ exit_code = -1
    /\ HookIdle

linkFrame == <<file, repo_root, lines, line, data, current_key, current_value,
               in_multiline, fm, runVars, hookVars>>

\* except Exception: return errors
LinkUnreadable ==
    /\ pc = "open"
    /\ ~file.readable
    /\ pc' = "returned"
    /\ UNCHANGED <<content, links, link, findings, linkFrame>>

\* if 'TEMPLATE' in file_path.name or 'SPEC' in file_path.name: return errors
LinkTemplate ==
    /\ pc = "open"
    /\ file.readable
    /\ IsTemplateName(PathName(file.path))
    /\ pc' = "returned"
    /\ UNCHANGED <<content, links, link, findings, linkFrame>>

\* the code blocks are removed and the links are found
LinkFind ==
    /\ pc = "open"
    /\ file.readable
    /\ ~IsTemplateName(PathName(file.path))
    /\ content' = RemoveCodeBlocks(file.content)
    /\ links' = FindLinks(RemoveCodeBlocks(file.content), 0)
    /\ pc' = "links"
    /\ UNCHANGED <<link, findings, linkFrame>>

\* one iteration of 'for text, link in links'
LinkIterate ==
    /\ pc = "links"
    /\ links # <<>>
    /\ link' = Head(links)
    /\ links' = Tail(links)
    /\ UNCHANGED <<content, pc, linkFrame>>

\* one of the 'continue' statements
LinkSkip ==
    /\ LinkIterate
    /\ SkippedLink(Head(links).link)
    /\ UNCHANGED findings

\* the target exists
LinkFound ==
    /\ LinkIterate
    /\ ~SkippedLink(Head(links).link)
    /\ LinkTargetExists(fs, file.path, repo_root, Head(links).link)
    /\ UNCHANGED findings

\* if not target.exists(): errors.append(...)
LinkBroken ==
    /\ LinkIterate
    /\ ~SkippedLink(Head(links).link)
    /\ ~LinkTargetExists(fs, file.path, repo_root, Head(links).link)
    /\ findings' = Append(findings, Head(links))

\* return errors
LinkReturn ==
    /\ pc = "links"
    /\ links = <<>>
    /\ pc' = "returned"
    /\ UNCHANGED <<content, links, link, findings, linkFrame>>

NextLink ==
    \/ LinkUnreadable
    \/ LinkTemplate
    \/ LinkFind
    \/ LinkSkip
    \/ LinkFound
    \/ LinkBroken
    \/ LinkReturn

SpecLink == InitLink /\ [][NextLink]_vars

\* the step-by-step run returns what the function returns
LinkAgrees ==
    pc = "returned" => findings = validate_markdown_links(fs, file, repo_root)

-----------------------------------------------------------------------------
(* The hook: protect-sensitive-files.py *)

\* a text of the hook is a sequence of atoms too; '.', '/', '*' and the
\* backslash are atoms of their own, a word is cut where a pattern could end
SLASH == "/"
DOT == "."
STAR == "*"
BACKSLASH == "\\"
PLACEHOLDER == <<"$CLAUDE_FILE_PATH">>

PROTECTED_PATTERNS ==
    << <<".", "env">>,
       <<".", "env", ".", "*">>,
       <<".", "env", ".", "local">>,
       <<".", "env", ".", "production">>,
       <<".", "env", ".", "development">>,
       <<"credentials", ".", "json">>,
       <<"credentials", ".", "yaml">>,
       <<"credentials", ".", "yml">>,
       <<"secrets", ".", "json">>,
       <<"secrets", ".", "yaml">>,
       <<"secrets", ".", "yml">>,
       <<".", "secrets">>,
       <<"*", ".", "pem">>,
       <<"*", ".", "key">>,
       <<"*", ".", "p12">>,
       <<"*", ".", "pfx">>,
       <<"id_rsa">>,
       <<"id_ed25519">>,
       <<"id_ecdsa">>,
       <<".", "npmrc">>,
       <<".", "pypirc">>,
       <<".", "netrc">>,
       <<".", "docker", "/", "config", ".", "json">>,
       <<".", "aws", "/", "credentials">>,
       <<".", "aws", "/", "config">>,
       <<"gcloud", "/", "*", ".", "json">>,
       <<".", "azure", "/", "credentials">> >>

PROTECTED_DIRECTORIES ==
    << <<".", "git">>, <<"secrets">>, <<"credentials">>, <<".", "aws">>, <<".", "ssh">>, <<".", "gnupg">> >>

EndsWith(s, suffix) ==
    Len(s) >= Len(suffix) /\ SubSeq(s, Len(s) - Len(suffix) + 1, Len(s)) = suffix

\* sub in s
Contains(s, sub) == Find(s, sub, 0) # -1

\* Path(filepath) of pathlib on a POSIX system: the root, and the components
\* without the empty ones and '.'
PathRoot(s) ==
    IF Len(s) >= 2 /\ s[1] = SLASH /\ s[2] = SLASH /\ (Len(s) = 2 \/ s[3] # SLASH)
    THEN <<SLASH, SLASH>>
    ELSE IF Len(s) >= 1 /\ s[1] = SLASH THEN <<SLASH>>
    ELSE <<>>

PathParts(s) == Components(Split(s, SLASH))

\* str(path)
PathStr(s) ==
    IF PathRoot(s) = <<>> /\ PathParts(s) = <<>> THEN <<DOT>>
    ELSE PathRoot(s) \o Join(PathParts(s), SLASH)

\* path.name
PathNameOf(s) == IF PathParts(s) = <<>> THEN <<>> ELSE PathParts(s)[Len(PathParts(s))]

\* s.replace("\\", "/")
ReplaceBackslashes(s) == [i \in 1..Len(s) |-> IF s[i] = BACKSLASH THEN SLASH ELSE s[i]]

matches_pattern(filepath, pattern) ==
    LET name == PathNameOf(filepath)
        parts == Split(pattern, STAR)
    IN  IF StartsWith(pattern, <<STAR, DOT>>)
        THEN EndsWith(name, Tail(pattern))
        ELSE IF EndsWith(pattern, <<DOT, STAR>>)
        THEN StartsWith(name, SubSeq(pattern, 1, Len(pattern) - 2) \o <<DOT>>)
        ELSE IF Contains(pattern, <<STAR>>) /\ Len(parts) = 2
        THEN StartsWith(name, parts[1]) /\ EndsWith(name, parts[2])
        ELSE name = pattern \/ Contains(PathStr(filepath), pattern)

\* the test of the loop over PROTECTED_DIRECTORIES
InProtectedDirectory(normalized, protected_dir) ==
    \/ Contains(<<SLASH>> \o normalized \o <<SLASH>>, <<SLASH>> \o protected_dir \o <<SLASH>>)
    \/ StartsWith(normalized, protected_dir \o <<SLASH>>)

\* the index of the first protected directory the path lies in, or 0
FirstDirectory(normalized) ==
    LET hits == {i \in DOMAIN PROTECTED_DIRECTORIES :
                    InProtectedDirectory(normalized, PROTECTED_DIRECTORIES[i])}
    IN  IF hits = {} THEN 0 ELSE CHOOSE i \in hits : \A j \in hits : i <= j

\* the index of the first protected pattern the path matches, or 0
FirstPattern(filepath) ==
    LET hits == {i \in DOMAIN PROTECTED_PATTERNS :
                    matches_pattern(filepath, PROTECTED_PATTERNS[i])}
    IN  IF hits = {} THEN 0 ELSE CHOOSE i \in hits : \A j \in hits : i <= j

\* the reasons: "Directory '...' is protected", "File matches protected
\* pattern '...'" and ""
DirectoryReason(protected_dir) == <<"Directory '">> \o protected_dir \o <<"' is protected">>
PatternReason(pattern) == <<"File matches protected pattern '">> \o pattern \o <<"'">>

is_protected(filepath) ==
    IF filepath = <<>> THEN [blocked |-> FALSE, reason |-> <<>>]
    ELSE LET normalized == ReplaceBackslashes(PathStr(filepath))
             d == FirstDirectory(normalized)
             m == FirstPattern(filepath)
         IN  IF d # 0
             THEN [blocked |-> TRUE, reason |-> DirectoryReason(PROTECTED_DIRECTORIES[d])]
             ELSE IF m # 0
             THEN [blocked |-> TRUE, reason |-> PatternReason(PROTECTED_PATTERNS[m])]
             ELSE [blocked |-> FALSE, reason |-> <<>>]

\* the paths the hook is called with
HookPaths ==
    { <<"/", "home", "/", "u", "/", ".", "ssh", "/", "id_rsa">>,
      <<"/", "p", "/", ".", "git", "/", "config">>,
      <<"/", "p", "/", ".", "git", "hub", "/", "w", ".", "yml">>,
      <<".", "git", "/", "config">>,
      <<".", "git", "hub", "/", "w", ".", "yml">>,
      <<"/", "p", "/", ".", "git">>,
      <<"/", "p", "/", ".", "git", "/">>,
      <<"/", "p", "/", "/", ".", "ssh", "/", "/", "known">>,
      <<"/", "p", "/", ".", "env">>,
      <<"/", "p", "/", ".", "env", ".", "local">>,
      <<"/", "p", "/", ".", "env", ".", "staging">>,
      <<"/", "p", "/", ".", "env", "ironment">>,
      <<"/", "p", "/", "x", ".", "env", "y">>,
      <<".", "/", ".", "env">>,
      <<"/", "p", "/", "src", "/", "main", ".", "py">>,
      <<"/", "p", "/", "server", ".", "pem">>,
      <<"/", "p", "/", "server", ".", "pem", ".", "txt">>,
      <<"/", "p", "/", "a", ".", "key">>,
      <<"/", "p", "/", "gcloud", "/", "key", ".", "json">>,
      <<"/", "p", "/", "credentials", ".", "json">>,
      <<"/", "p", "/", "my", "credentials", ".", "json", ".", "bak">>,
      <<"/", "p", "/", "secrets", "/", "a", ".", "txt">>,
      <<"/", "p", "/", "my", "secrets", "/", "a", ".", "txt">>,
      <<"secrets", "/", "a", ".", "txt">>,
      <<"/", "p", "/", "secrets">>,
      <<"C:", "\\", "p", "\\", ".", "git", "\\", "config">>,
      <<"C:", "\\", "p", "\\", "main", ".", "py">>,
      <<"/", "p", "/", ".", "aws", "/", "config">>,
      <<"/", "p", "/", ".", "aws", "x", "/", "config">>,
      <<"/", "p", "/", ".", "docker", "/", "config", ".", "json">>,
      <<"/", "p", "/", "id_rsa", ".", "pub">>,
      <<"/", "p", "/", "id_rsa">>,
      <<"/", "p", "/", ".", "npmrc">>,
      <<"/", "p", "/", ".", "azure", "/", "credentials">>,
      <<"/", "p", "/", ".", "azure", "/", "x", "/", "credentials">>,
      <<".">>,
      <<"/">>,
      <<".", ".">>,
      <<"/", "p", "/", "main", ".", "pem", "/", "x">>,
      <<"/", "p", "/", ".", "env", "/">>,
      <<"/", "/", "p", "/", "main", ".", "py">>,
      <<"/", "p", "/", "a", ".", "pfx", "x">>,
      <<"/", "p", "/", ".", "netrc">>,
      <<"/", "p", "/", ".", "env", ".", "production">>,
      <<"/", "p", "/", ".", "env", ".", "development">>,
      <<"/", "p", "/", "credentials", ".", "yaml">>,
      <<"/", "p", "/", "credentials", ".", "yml">>,
      <<"/", "p", "/", "secrets", ".", "json">>,
      <<"/", "p", "/", "secrets", ".", "yaml">>,
      <<"/", "p", "/", "secrets", ".", "yml">>,
      <<"/", "p", "/", ".", "secrets">>,
      <<"/", "p", "/", "a", ".", "p12">>,
      <<"/", "p", "/", "a", ".", "pfx">>,
      <<"/", "p", "/", "id_ed25519">>,
      <<"/", "p", "/", "id_ecdsa">>,
      <<"/", "p", "/", ".", "pypirc">>,
      <<"/", "p", "/", ".", "aws", "/", "credentials">>,
      <<"gcloud", "/", "sa", ".", "json">>,
      <<"/", "p", "/", "gcloud", "/", "d", "/", "key", ".", "json">>,
      <<"/", "p", "/", "gcloud", "/", "key", ".", "json", "5">> }

\* sys.argv[1:]: nothing, the empty text, the placeholder, a path, and a path
\* followed by one more argument
HookArguments ==
    { <<>>, << <<>> >>, <<PLACEHOLDER>> }
    \cup { <<q>> : q \in HookPaths }
    \cup { <<q, <<"x">> >> : q \in HookPaths }

InitHook ==
    /\ argv \in HookArguments
    /\ protected = NotChecked
    /\ pc = "hook"
    /\ exit_code = -1
    /\ fs = {}
    /\ target = <<>>
    /\ todo = {}
    /\ files_checked = 0
    /\ errors = 0
    /\ warnings = 0
    /\ log = <<>>
    /\ LinkIdle
    /\ file = NoFile
    /\ findings = <<>>
    /\ content = <<>>
    /\ lines = <<>>
    /\ line = <<>>
    /\ data = <<>>
    /\ current_key = NoneKey
    /\ current_value = <<>>
    /\ in_multiline = FALSE
    /\ fm = [valid |-> FALSE, err |-> NoErr, data |-> <<>>]

hookFrame == <<argv, fs, target, todo, files_checked, errors, warnings, log,
               linkVars, fmVars, valVars>>

\* sys.exit(status)
HookExit(status) ==
    /\ exit_code' = status
    /\ pc' = "exit"
    /\ UNCHANGED <<protected, hookFrame>>

\* if len(sys.argv) < 2: sys.exit(0)
HookNoArgument ==
    /\ pc = "hook"
    /\ Len(argv) < 1
    /\ HookExit(0)

\* if not filepath or filepath == "$CLAUDE_FILE_PATH": sys.exit(0)
HookNoPath ==
    /\ pc = "hook"
    /\ Len(argv) >= 1
    /\ argv[1] = <<>> \/ argv[1] = PLACEHOLDER
    /\ HookExit(0)

\* protected, reason = is_protected(filepath)
HookCheck ==
    /\ pc = "hook"
    /\ Len(argv) >= 1
    /\ argv[1] # <<>> /\ argv[1] # PLACEHOLDER
    /\ protected' = is_protected(argv[1])
    /\ pc' = "checked"
    /\ UNCHANGED <<exit_code, hookFrame>>

\* the status of a blocked operation is 2
BlockedStatusTwo(blocked) == IF blocked THEN 2 ELSE 0

\* if protected: ... sys.exit(1); else sys.exit(0)
BlockedStatus(blocked) == IF blocked THEN 1 ELSE 0

HookBlocked ==
    /\ pc = "checked"
    /\ protected.blocked
    /\ HookExit(BlockedStatus(protected.blocked))

HookAllowed ==
    /\ pc = "checked"
    /\ ~protected.blocked
    /\ HookExit(BlockedStatus(protected.blocked))

NextHook ==
    \/ HookNoArgument
    \/ HookNoPath
    \/ HookCheck
    \/ HookBlocked
    \/ HookAllowed

SpecHook == InitHook /\ [][NextHook]_vars

-----------------------------------------------------------------------------
(* Claims about the run (Spec) *)

\* C1: the process exits with status 1 if and only if the target path does not
\* exist or the error count is greater than 0; in every other case it exits
\* with status 0, whatever the warning count is.
C1_ExitStatus ==
    /\ exit_code \in {-1, 0, 1}
    /\ (exit_code = -1) <=> (pc # "exit")
    /\ pc = "exit" =>
          LET exists == target = ROOT \/ \E f \in fs : f.path = target
          IN  (exit_code = 1) <=> (~exists \/ errors > 0)

\* a run over a directory that ends with warnings and no error
C1_Witness ==
    /\ pc = "exit"
    /\ target = ROOT
    /\ warnings > 0
    /\ errors = 0
    /\ files_checked > 0
    /\ exit_code = 0

\* the file of the file system at a path
FileAt(p) == CHOOSE f \in fs : f.path = p

\* the repository root the links of a call are resolved against
RootOfRun(p) ==
    IF target = p THEN FindRepoRoot(PathParent(p), PathParent(p)) ELSE target

\* no call but those of the link checker has reported a finding
OnlyLinkFindings ==
    \A i \in DOMAIN log : log[i].op # "links" => log[i].errs = 0 /\ log[i].warns = 0

\* C11: broken links are warnings and only warnings: a call of the link
\* checker adds one warning for each broken link of the file and no error, and
\* a run whose only findings are broken links ends with error count 0 and exit
\* status 0.
C11_BrokenLinksWarn ==
    /\ \A i \in DOMAIN log :
          log[i].op = "links" =>
              /\ log[i].errs = 0
              /\ log[i].warns =
                     Len(validate_markdown_links(fs, FileAt(log[i].path),
                                                 RootOfRun(log[i].path)))
    /\ (pc = "exit" /\ log # <<>> /\ OnlyLinkFindings) => errors = 0 /\ exit_code = 0

\* a directory run over a document with exactly one broken link
C11_Witness ==
    /\ pc = "exit"
    /\ target = ROOT
    /\ \E i \in DOMAIN log : log[i].op = "links" /\ log[i].warns = 1
    /\ OnlyLinkFindings
    /\ warnings = 1
    /\ errors = 0
    /\ exit_code = 0

\* the path has a directory segment '.git' or 'node_modules'
ClaimExcluded(p) ==
    \E i \in 1..(Len(p) - 1) : p[i] \in {<<".git">>, <<"node_modules">>}

\* the validator calls a file of the tree is discovered for
ClaimDiscoveredFor(f) ==
    (IF HasSuffix(f.path, ".json") THEN {"json"} ELSE {})
    \cup (IF HasSuffix(f.path, ".md") THEN {"links"} ELSE {})
    \cup (IF PathName(f.path) = SKILL_MD THEN {"skill"} ELSE {})

\* C14: in directory mode no file under a '.git' or 'node_modules' directory is
\* given to a validator or counted, and no file outside such directories is
\* left out.
C14_Exclusion ==
    IsDir(fs, target) =>
        /\ \A i \in DOMAIN log : ~ClaimExcluded(log[i].path)
        /\ pc = "exit" =>
              \A f \in fs : \A op \in ClaimDiscoveredFor(f) :
                  (Under(target, f.path) /\ ~ClaimExcluded(f.path))
                      => \E i \in DOMAIN log : log[i].op = op /\ log[i].path = f.path

\* the paths of the files a repository is made of, sorted
ClaimSortedPaths ==
    << << <<".git", "hub">>, <<"w", ".json">> >>,
       << README_MD >>,
       << <<"agents">>, README_MD >>,
       << <<"agents">>, <<"a", ".md">> >>,
       << <<"commands">>, <<"c", ".md">> >>,
       << <<"commands">>, <<"x", ".git", ".md">> >>,
       << <<"docs">>, <<"d", ".md">> >>,
       << <<"node_modules">>, SKILL_MD >>,
       << <<"node_modules">>, <<"p", ".json">> >>,
       << <<"notes", ".txt">> >>,
       << <<"rules">>, README_MD >>,
       << <<"rules">>, SKILL_MD >>,
       << <<"rules">>, <<"r", ".md">> >>,
       << <<"settings", ".json">> >>,
       << <<"skills">>, SKILL_MD >> >>

ClaimRank(p) == CHOOSE i \in DOMAIN ClaimSortedPaths : ROOT \o ClaimSortedPaths[i] = p

\* C15: file discovery returns, for each artifact type, a list without
\* duplicates sorted by path: every loop of a directory run takes the files of
\* its list in the order of their paths, each file once.
C15_SortedDiscovery ==
    [][\A f \in todo \ todo' :
          /\ todo' = todo \ {f}
          /\ \A g \in todo : ClaimRank(f.path) <= ClaimRank(g.path)]_vars

\* the artifact type of a file: JSON, skill, rule, agent or command
ClaimArtifactType(p) ==
    IF HasSuffix(p, ".json") THEN "json"
    ELSE IF PathName(p) = SKILL_MD THEN "skill"
    ELSE IF HasSuffix(p, ".md") /\ Len(p) >= 2 /\ p[Len(p) - 1] = <<"rules">> THEN "rule"
    ELSE IF HasSuffix(p, ".md") /\ Len(p) >= 2 /\ p[Len(p) - 1] = <<"agents">> THEN "agent"
    ELSE IF HasSuffix(p, ".md") /\ Len(p) >= 2 /\ p[Len(p) - 1] = <<"commands">> THEN "command"
    ELSE "none"

\* the run is a single-file run that has made its calls
SingleFileDone == IsFile(fs, target) /\ pc \in {"summary", "exit"}

\* C16 as stated: in single-file mode exactly the validator matching the
\* artifact type of the target (JSON, skill, rule, agent or command) is run,
\* and no other.
C16_SingleFileAsStated ==
    (SingleFileDone /\ ClaimArtifactType(target) # "none") =>
        /\ Len(log) = 1
        /\ log[1].path = target
        /\ log[1].op = ClaimArtifactType(target)

\* the check single-file mode picks from the file name and extension alone
ClaimSingleFileCheck(name) ==
    IF name[Len(name)] = ".json" THEN "json"
    ELSE IF name = SKILL_MD THEN "skill"
    ELSE IF name[Len(name)] = ".md" THEN "links"
    ELSE "skip"

\* C16 amended: in single-file mode the check is picked from the file name and
\* extension alone and exactly one is run: the JSON checker for a '.json'
\* file, the skill validator for a file named 'SKILL.md', the link checker for
\* any other '.md' file and nothing for any other file; the rule, agent and
\* command validators are not run in single-file mode.
C16_SingleFile ==
    SingleFileDone =>
        /\ Len(log) = 1
        /\ log[1].path = target
        /\ log[1].op = ClaimSingleFileCheck(PathName(target))
        /\ files_checked = 1
        /\ errors = log[1].errs
        /\ warnings = log[1].warns

\* a single-file run on a skill file and its three findings
C16_Witness ==
    /\ SingleFileDone
    /\ PathName(target) = SKILL_MD
    /\ log[1].op = "skill"
    /\ errors = 3

\* the sum of a field over the calls made on a path
RECURSIVE ClaimTotal(_, _, _)
ClaimTotal(l, p, field) ==
    IF l = <<>> THEN 0
    ELSE (IF Head(l).path = p THEN Head(l)[field] ELSE 0) + ClaimTotal(Tail(l), p, field)

\* C17: every read failure met during a run becomes exactly one reported error
\* finding for that file, and the run goes on with the other files: at the end
\* of the run every file that was given to a validator and could not be read
\* has exactly one error.
C17_ReadFailures ==
    (pc = "exit" /\ log # <<>>) =>
        \A f \in fs :
            (~f.readable /\ \E i \in DOMAIN log : log[i].path = f.path)
                => ClaimTotal(log, f.path, "errs") = 1

\* what one file adds to the counters in one loop of a directory run:
\* <<files_checked, errors, warnings>>
ClaimAdds(phase, f) ==
    CASE phase = "json" ->
            IF Excluded(f.path) THEN <<0, 0, 0>>
            ELSE <<1, IF validate_json(f).valid THEN 0 ELSE 1, 0>>
      [] phase = "skill" -> <<1, Len(validate_skill_md(f)), 0>>
      [] phase = "rule" ->
            IF PathName(f.path) = README_MD THEN <<0, 0, 0>>
            ELSE <<1, Len(validate_rule_md(f)), 0>>
      [] phase = "agent" ->
            IF PathName(f.path) = README_MD THEN <<0, 0, 0>>
            ELSE <<1, Len(validate_agent_md(f)), 0>>
      [] phase = "command" -> <<1, Len(validate_command_md(f)), 0>>
      [] phase = "links" ->
            IF Excluded(f.path) THEN <<0, 0, 0>>
            ELSE <<0, 0, Len(validate_markdown_links(fs, f, target))>>

\* the sum of what the files of a set add, taken in one fixed order
RECURSIVE ClaimSum(_, _)
ClaimSum(phase, S) ==
    IF S = {} THEN <<0, 0, 0>>
    ELSE LET f == CHOOSE f \in S : TRUE
             a == ClaimAdds(phase, f)
             r == ClaimSum(phase, S \ {f})
         IN  <<a[1] + r[1], a[2] + r[2], a[3] + r[3]>>

\* the counts of a directory run, from the file system alone
ClaimCounts ==
    LET phases == <<"json", "skill", "rule", "agent", "command", "links">>
        c == [i \in 1..6 |-> ClaimSum(phases[i], PhaseFiles(phases[i]))]
    IN  [k \in 1..3 |-> c[1][k] + c[2][k] + c[3][k] + c[4][k] + c[5][k] + c[6][k]]

\* C18: the counts (files_checked, errors, warnings) of a directory run are a
\* function of the file system alone: whatever order the files of each loop
\* are taken in, the run ends with the same counts.
C18_CountsDeterministic ==
    (pc \in {"summary", "exit"} /\ IsDir(fs, target)) =>
        <<files_checked, errors, warnings>> = ClaimCounts

\* a directory run over three files of one loop, two of them with findings
C18_Witness ==
    /\ pc = "exit"
    /\ IsDir(fs, target)
    /\ Cardinality(PhaseFiles("links")) = 3
    /\ Cardinality({i \in DOMAIN log : log[i].op = "links" /\ log[i].warns > 0}) >= 1
    /\ errors > 0
    /\ warnings > 0

\* the files named README.md that lie under the rules or the agents directory
\* of the target
ClaimReadmes ==
    {f \in fs : /\ PathName(f.path) = README_MD
                /\ \/ Under(Append(target, <<"rules">>), f.path)
                   \/ Under(Append(target, <<"agents">>), f.path)}

\* the sum of the errors of the calls made
RECURSIVE ClaimErrorsOf(_)
ClaimErrorsOf(l) == IF l = <<>> THEN 0 ELSE Head(l).errs + ClaimErrorsOf(Tail(l))

\* in directory mode a README.md of the rules or agents directory is given to
\* no schema validator, and the counters hold what the calls made have added
ClaimReadmeAddsNothing ==
    IsDir(fs, target) =>
        /\ \A f \in ClaimReadmes : \A i \in DOMAIN log :
              log[i].path = f.path => log[i].op = "links" /\ log[i].errs = 0
        /\ files_checked = Cardinality({i \in DOMAIN log : log[i].op # "links"})
        /\ errors = ClaimErrorsOf(log)

\* C25 as stated: a file named README.md is exempt from all rule and agent
\* rules: the rule validator and the agent validator return no finding for it
\* in every case, and in directory mode it adds nothing to files_checked or
\* to the error count.
C25_ReadmeExemptAsStated ==
    /\ \A f \in fs :
          PathName(f.path) = README_MD =>
              validate_rule_md(f) = <<>> /\ validate_agent_md(f) = <<>>
    /\ ClaimReadmeAddsNothing

\* C25 amended: the rule validator and the agent validator return no finding
\* for a file named README.md whenever the file can be read, and the single
\* read-error finding when it cannot; in directory mode such a file adds
\* nothing to files_checked or to the error count.
C25_ReadmeExempt ==
    /\ \A f \in fs :
          PathName(f.path) = README_MD =>
              LET expected == IF f.readable THEN <<>> ELSE <<CANNOT_READ>>
              IN  validate_rule_md(f) = expected /\ validate_agent_md(f) = expected
    /\ ClaimReadmeAddsNothing

\* a directory run over rules/README.md and a rule file with two findings
C25_Witness ==
    /\ pc = "exit"
    /\ target = ROOT
    /\ \E f \in ClaimReadmes : f.path = ROOT \o << <<"rules">>, README_MD >>
    /\ \E i \in DOMAIN log : log[i].op = "rule" /\ log[i].errs = 2
    /\ \E i \in DOMAIN log : log[i].op = "links" /\ PathName(log[i].path) = README_MD
    /\ files_checked = 1
    /\ errors = 2

\* the place of a phase in the order the claim gives (0 before the first
\* phase, 7 after the last)
ClaimPhaseRank(op) ==
    CASE op = "main" -> 0
      [] op = "json" -> 1
      [] op = "skill" -> 2
      [] op = "rule" -> 3
      [] op = "agent" -> 4
      [] op = "command" -> 5
      [] op = "links" -> 6
      [] OTHER -> 7

\* the files a loop passes over without a call
ClaimSkipped(phase, f) ==
    \/ phase \in {"json", "links"} /\ Excluded(f.path)
    \/ phase \in {"rule", "agent"} /\ PathName(f.path) = README_MD

\* C26: in directory mode the phases follow one another in the order JSON,
\* skill, rule, agent, command, links: no call of a phase is made after a call
\* of a later phase, and while a phase runs every file of every earlier phase
\* has been validated.
C26_PhaseOrder ==
    IsDir(fs, target) =>
        /\ \A i, j \in DOMAIN log :
              i < j => ClaimPhaseRank(log[i].op) <= ClaimPhaseRank(log[j].op)
        /\ \A i \in DOMAIN log : ClaimPhaseRank(log[i].op) <= ClaimPhaseRank(pc)
        /\ \A q \in {"json", "skill", "rule", "agent", "command", "links"} :
              ClaimPhaseRank(q) < ClaimPhaseRank(pc) =>
                  \A f \in PhaseFiles(q) :
                      ~ClaimSkipped(q, f) =>
                          \E i \in DOMAIN log : log[i].op = q /\ log[i].path = f.path

\* a directory run that has made calls of five phases, and is checking links
C26_Witness ==
    /\ pc = "links"
    /\ target = ROOT
    /\ {log[i].op : i \in DOMAIN log} = {"json", "skill", "rule", "command", "links"}
    /\ todo # {}

\* the findings a call of the record returned: <<errors, warnings>>
ClaimFindingsOf(op, f) ==
    CASE op = "json" -> <<IF validate_json(f).valid THEN 0 ELSE 1, 0>>
      [] op = "skill" -> <<Len(validate_skill_md(f)), 0>>
      [] op = "rule" -> <<Len(validate_rule_md(f)), 0>>
      [] op = "agent" -> <<Len(validate_agent_md(f)), 0>>
      [] op = "command" -> <<Len(validate_command_md(f)), 0>>
      [] op = "links" -> <<0, Len(validate_markdown_links(fs, f, target))>>
      [] OTHER -> <<0, 0>>

RECURSIVE ClaimFindings(_)
ClaimFindings(l) ==
    IF l = <<>> THEN <<0, 0>>
    ELSE LET a == ClaimFindingsOf(Head(l).op, FileAt(Head(l).path))
             r == ClaimFindings(Tail(l))
         IN  <<a[1] + r[1], a[2] + r[2]>>

ClaimSchemaPhases == {"json", "skill", "rule", "agent", "command"}

\* C28: in a directory run the counters never decrease; at the end errors is
\* the number of JSON files found invalid plus the number of findings the
\* skill, rule, agent and command validators returned, and warnings is the
\* number of broken links the link checker returned; a schema validator adds
\* nothing to warnings and the link checker nothing to errors.
C28_Counters ==
    /\ []((IsDir(fs, target) /\ pc \in {"summary", "exit"}) =>
              <<errors, warnings>> = ClaimFindings(log))
    /\ [][IsDir(fs, target) =>
              /\ files_checked' >= files_checked
              /\ errors' >= errors
              /\ warnings' >= warnings
              /\ pc \in ClaimSchemaPhases => warnings' = warnings
              /\ pc = "links" => errors' = errors /\ files_checked' = files_checked]_vars

\* a directory run that ends with one invalid JSON file, three findings of a
\* skill file and two broken links
C28_Witness ==
    /\ pc = "exit"
    /\ target = ROOT
    /\ \E i \in DOMAIN log : log[i].op = "json" /\ log[i].errs = 1
    /\ \E i \in DOMAIN log : log[i].op = "skill" /\ log[i].errs = 3
    /\ \E i \in DOMAIN log : log[i].op = "links" /\ log[i].warns = 2
    /\ errors = 4
    /\ warnings = 2

\* the text of a claim: the repository root of a file, the nearest directory
\* above it that holds '.git' or 'README.md', else its own directory
ClaimRepoRoot(p) ==
    LET marked == {n \in 0..(Len(p) - 1) :
                      \E m \in {<<".git">>, README_MD} :
                          \/ IsFile(fs, Append(SubSeq(p, 1, n), m))
                          \/ IsDir(fs, Append(SubSeq(p, 1, n), m))}
    IN  IF marked = {} THEN PathParent(p)
        ELSE SubSeq(p, 1, CHOOSE n \in marked : \A h \in marked : h <= n)

\* the Markdown file lies under the directory d of the root
ClaimIn(root, d, f) == Under(Append(root, <<d>>), f.path) /\ HasSuffix(f.path, ".md")

\* what a directory run over the root reports for the file: the errors of the
\* JSON checker and the skill validator, those of the rule, agent and command
\* validators, and the warnings of the link checker
ClaimDirJsonSkill(root, f) ==
    (IF HasSuffix(f.path, ".json") /\ ~Excluded(f.path) /\ ~validate_json(f).valid
     THEN 1 ELSE 0)
    + (IF PathName(f.path) = SKILL_MD THEN Len(validate_skill_md(f)) ELSE 0)

ClaimDirRuleAgentCommand(root, f) ==
    (IF ClaimIn(root, "rules", f) /\ PathName(f.path) # README_MD
     THEN Len(validate_rule_md(f)) ELSE 0)
    + (IF ClaimIn(root, "agents", f) /\ PathName(f.path) # README_MD
       THEN Len(validate_agent_md(f)) ELSE 0)
    + (IF ClaimIn(root, "commands", f) THEN Len(validate_command_md(f)) ELSE 0)

ClaimDirLinkChecks(root, f) == HasSuffix(f.path, ".md") /\ ~Excluded(f.path)

ClaimDirWarnings(root, f) ==
    IF ClaimDirLinkChecks(root, f) THEN Len(validate_markdown_links(fs, f, root)) ELSE 0

\* the directory run over the root validates the file
ClaimDirValidates(root, f) ==
    /\ Under(root, f.path)
    /\ \/ HasSuffix(f.path, ".json") /\ ~Excluded(f.path)
       \/ PathName(f.path) = SKILL_MD
       \/ ClaimIn(root, "rules", f) /\ PathName(f.path) # README_MD
       \/ ClaimIn(root, "agents", f) /\ PathName(f.path) # README_MD
       \/ ClaimIn(root, "commands", f)
       \/ ClaimDirLinkChecks(root, f)

\* C29: single-file mode and directory mode agree on a file: for every file
\* that directory mode validates, the run on that file alone reports the same
\* error findings and the same warning findings for it as the directory run
\* over its repository root.
C29_ModesAgree ==
    (SingleFileDone /\ ClaimDirValidates(ClaimRepoRoot(target), FileAt(target))) =>
        LET root == ClaimRepoRoot(target)
            f == FileAt(target)
        IN  /\ errors = ClaimDirJsonSkill(root, f) + ClaimDirRuleAgentCommand(root, f)
            /\ warnings = ClaimDirWarnings(root, f)

\* the text of a claim: the files a JSON, skill, rule, agent or command
\* validator was given so far
ClaimDispatched == {log[i].path : i \in {j \in DOMAIN log : log[j].op \in ClaimSchemaPhases}}

\* C30: in directory mode files_checked equals the number of distinct files
\* dispatched to a JSON, skill, rule, agent or command validator: each such
\* file is counted once, however many artifact types it matches, and a
\* Markdown file that is only link-checked is not counted.
C30_DistinctFilesCounted ==
    IsDir(fs, target) => files_checked = Cardinality(ClaimDispatched)

-----------------------------------------------------------------------------
(* Claims about the link checker (SpecLink) *)

\* the targets the link checker is said to leave alone
ClaimExempt(t) ==
    \/ \E p \in {"http://", "https://", "mailto:"} : Len(t) >= 1 /\ t[1] = p
    \/ Len(t) >= 1 /\ t[1] = HASH
    \/ t \in {<<"url">>, <<"link">>, <<"badge">>}
    \/ Len(t) >= 4 /\ SubSeq(t, 1, 4) = <<"..", "/", "..", "/">>

\* the links of the document the call looks at
LinksOfFile == FindLinks(RemoveCodeBlocks(file.content), 0)

\* C12: no finding is produced for a link whose target starts with 'http://',
\* 'https://' or 'mailto:', starts with '#', is exactly 'url', 'link' or
\* 'badge', or starts with '../../', whatever exists on disk.
C12_ExemptLinks == \A i \in DOMAIN findings : ~ClaimExempt(findings[i].link)

\* a document with '../../issues' and 'x.md', neither on disk: one finding,
\* about 'x.md'
C12_Witness ==
    /\ pc = "returned"
    /\ Len(LinksOfFile) = 2
    /\ LinksOfFile[1].link = <<"..", "/", "..", "/", "issues">>
    /\ LinksOfFile[2].link = <<"x", ".md">>
    /\ ~IsFile(fs, DOCS \o << <<"x", ".md">> >>)
    /\ Len(findings) = 1
    /\ findings[1].link = <<"x", ".md">>

\* the target without its '#anchor' suffix
ClaimPath(t) ==
    IF \E i \in 1..Len(t) : t[i] = HASH
    THEN SubSeq(t, 1, (CHOOSE i \in 1..Len(t) : t[i] = HASH /\ \A j \in 1..(i - 1) : t[j] # HASH) - 1)
    ELSE t

\* a path text relative to a directory: the directory, then the components
ClaimRelative(dir, text) == Walk(fs, dir, Components(Split(text, "/")))

\* the resolved path of a target exists
ClaimTargetExists(t) ==
    LET p == ClaimPath(t)
        here == PathParent(file.path)
    IN  IF Len(p) >= 2 /\ SubSeq(p, 1, 2) = <<".", "/">>
        THEN ClaimRelative(here, SubSeq(p, 3, Len(p)))
        ELSE IF Len(p) >= 1 /\ p[1] = "/"
        THEN ClaimRelative(repo_root, SubSeq(p, 2, Len(p)))
        ELSE ClaimRelative(here, p)

\* C13: for every link that is not skipped the existence check is made on the
\* target without its '#anchor' suffix, a './' path relative to the directory
\* of the file, a '/' path relative to the repository root, any other path
\* relative to the directory of the file; a warning is emitted if and only if
\* that path does not exist.
C13_Resolution ==
    [][(pc = "links" /\ links # <<>> /\ ~ClaimExempt(Head(links).link))
          => findings' = IF ClaimTargetExists(Head(links).link)
                         THEN findings
                         ELSE Append(findings, Head(links))]_vars

-----------------------------------------------------------------------------
(* Claims about the frontmatter extractor and the mapper (SpecFM) *)

\* the text of a claim: "the first three characters are '---'"
FirstThreeAreDashes(c) == Len(c) >= 3 /\ c[1] = DASH /\ c[2] = DASH /\ c[3] = DASH

\* the text of a claim: a line made of '---' and then white space only
IsDelimiterLine(l) ==
    /\ Len(l) >= 3
    /\ SubSeq(l, 1, 3) = <<DASH, DASH, DASH>>
    /\ \A i \in 4..Len(l) : l[i] \in Whitespace

\* the text of a claim: after the opening delimiter there is a delimiter line
\* that has a line break before it and a line break after it
HasClosingLine(c) ==
    LET ls == Split(SubSeq(c, 4, Len(c)), NL)
    IN  \E i \in 2..(Len(ls) - 1) : IsDelimiterLine(ls[i])

\* C2: the extractor fails with 'missing frontmatter' exactly when the first
\* three characters are not '---'; when they are, it fails with 'missing
\* closing delimiter' exactly when no line made of '---' (and optional white
\* space), with a line break before and after it, follows the opening
\* delimiter; otherwise it succeeds.
C2_ExtractorOutcome ==
    pc = "done" =>
        /\ (fm.err = MISSING_FRONTMATTER) <=> ~FirstThreeAreDashes(content)
        /\ FirstThreeAreDashes(content) =>
              ((fm.err = MISSING_CLOSING) <=> ~HasClosingLine(content))
        /\ (FirstThreeAreDashes(content) /\ HasClosingLine(content)) =>
              (fm.valid /\ fm.err = NoErr)
        /\ fm.valid <=> (fm.err = NoErr)

\* a closing delimiter followed by white space was accepted
C2_Witness ==
    /\ pc = "done"
    /\ fm.valid
    /\ content = <<DASH, DASH, DASH, NL, DASH, DASH, DASH, SP, NL>>

\* the text of a claim: a key line
ClaimKeyLine(l) == l # <<>> /\ l[1] # SP /\ \E i \in 1..Len(l) : l[i] = COLON

ClaimFirstColon(l) == CHOOSE i \in 1..Len(l) : l[i] = COLON /\ \A j \in 1..(i - 1) : l[j] # COLON

ClaimKey(l) == Strip(SubSeq(l, 1, ClaimFirstColon(l) - 1))

ClaimInline(l) == Strip(SubSeq(l, ClaimFirstColon(l) + 1, Len(l)))

\* C3: on a key line the key is the trimmed text before the first colon and
\* the inline value the trimmed text after it; a non-empty inline value other
\* than '|' and '>' is stored for the key and block-scalar mode is off; an
\* empty one stores the empty string and block-scalar mode is off.
C3_KeyLine ==
    [][(pc = "loop" /\ lines # <<>> /\ ClaimKeyLine(Head(lines))) =>
          LET k == ClaimKey(Head(lines))
              v == ClaimInline(Head(lines))
          IN  /\ (v # <<>> /\ v # <<PIPE>> /\ v # <<GT>>) =>
                    /\ DictHas(data', k)
                    /\ DictGet(data', k) = v
                    /\ ~in_multiline'
              /\ (v = <<>>) =>
                    /\ DictHas(data', k)
                    /\ DictGet(data', k) = <<>>
                    /\ ~in_multiline']_vars

\* the key line 'k:v:w' was split at its first colon, while a block scalar
\* was being collected
C3_Witness ==
    /\ pc = "loop"
    /\ line = <<"k", COLON, "v", COLON, "w">>
    /\ DictHas(data, <<"k">>)
    /\ DictGet(data, <<"k">>) = <<"v", COLON, "w">>
    /\ current_value # <<>>
    /\ ~in_multiline

\* the lines of the block, and how many of them the loop has visited
AllLines == Split(FrontmatterText(content), NL)

Visited == Len(AllLines) - Len(lines)

\* the text of a claim: the lines that start with a space, each without its
\* leading white space
RECURSIVE IndentedLines(_)
IndentedLines(ls) ==
    IF ls = <<>> THEN <<>>
    ELSE IF StartsWith(Head(ls), <<SP>>)
    THEN <<LStrip(Head(ls))>> \o IndentedLines(Tail(ls))
    ELSE IndentedLines(Tail(ls))

\* the last key line among the visited lines (0 when there is none)
LastKeyLine ==
    LET ks == {i \in 1..Visited : ClaimKeyLine(AllLines[i])}
    IN  IF ks = {} THEN 0 ELSE CHOOSE i \in ks : \A j \in ks : j <= i

\* C4: for a key whose inline value is '|' or '>', the value stored is the
\* following lines that start with a space, each without its leading white
\* space, joined by newline, up to the next key line or the end of the block;
\* it is stored when a new key line is met and when the block ends.
C4_BlockScalar ==
    [][(/\ pc = "loop"
        /\ lines = <<>> \/ ClaimKeyLine(Head(lines))
        /\ LastKeyLine > 0
        /\ ClaimInline(AllLines[LastKeyLine]) \in {<<PIPE>>, <<GT>>}
        /\ ClaimKey(AllLines[LastKeyLine]) # <<>>
        /\ lines # <<>> => ClaimKey(Head(lines)) # ClaimKey(AllLines[LastKeyLine]))
       =>
          LET k == ClaimKey(AllLines[LastKeyLine])
              following == SubSeq(AllLines, LastKeyLine + 1, Visited)
          IN  /\ DictHas(data', k)
              /\ DictGet(data', k) = Join(IndentedLines(following), NL)]_vars

\* the text of a claim: a mapping has one entry for a key
IsMapping(d) == \A i, j \in 1..Len(d) : d[i].k = d[j].k => i = j

\* C5: the mapper is total: every extracted block, also an empty one and one
\* with nested mappings, sequences or flow collections, is parsed with
\* success into a mapping, and an empty block gives the empty mapping.
C5_MapperTotal ==
    (pc = "done" /\ FirstThreeAreDashes(content) /\ HasClosingLine(content)) =>
        /\ fm.valid
        /\ fm.err = NoErr
        /\ IsMapping(fm.data)
        /\ (FrontmatterText(content) = <<>>) => (fm.data = <<>>)

\* a block with a sequence entry, a flow collection and a repeated key
C5_Witness ==
    /\ pc = "done"
    /\ fm.valid
    /\ AllLines = << <<>>, <<DASH, SP, "v">>, <<"j", COLON, SP, "[", "v", "]">>,
                     <<TAB, "j", SP, COLON, SP, "v", SP>> >>
    /\ fm.data = << [k |-> <<"j">>, v |-> <<"v">>] >>

\* the text of a claim: the block has single-line scalar key lines only
\* (blank lines apart)
RECURSIVE SingleLineOnly(_)
SingleLineOnly(ls) ==
    \/ ls = <<>>
    \/ /\ \/ Strip(Head(ls)) = <<>>
          \/ ClaimKeyLine(Head(ls)) /\ ClaimInline(Head(ls)) \notin {<<PIPE>>, <<GT>>}
       /\ SingleLineOnly(Tail(ls))

\* one 'key: value' line per key
Serialize(d) == Join([i \in 1..Len(d) |-> d[i].k \o <<COLON, SP>> \o d[i].v], NL)

\* C6: round trip: the mapping parsed from a block of single-line scalar key
\* lines, written as one 'key: value' line per key and parsed again, is the
\* same mapping.
C6_RoundTrip ==
    (pc = "done" /\ fm.valid /\ SingleLineOnly(AllLines)) =>
        Mapper(Serialize(fm.data)) = fm.data

\* a mapping of two keys, one value holding a colon
C6_Witness ==
    /\ pc = "done"
    /\ fm.valid
    /\ SingleLineOnly(AllLines)
    /\ fm.data = << [k |-> <<"j">>, v |-> <<"v">>],
                    [k |-> <<"k">>, v |-> <<"v", COLON, "w">>] >>

\* the text of a claim: the lines that lie between the first line of the
\* document and the first delimiter line after it that a line break follows
ClaimBetween(c) ==
    LET ls == Split(c, NL)
        closing == CHOOSE i \in 2..(Len(ls) - 1) :
                       /\ IsDelimiterLine(ls[i])
                       /\ \A j \in 2..(i - 1) : ~IsDelimiterLine(ls[j])
    IN  SubSeq(ls, 2, closing - 1)

\* C21: on success the block handed to the mapper is exactly the text between
\* the two delimiter lines: after the line break that ends the opening line,
\* its lines are the lines between the first line and the closing delimiter
\* line, and nothing of the first line (what follows '---' on it included)
\* and nothing of the closing line is part of it.
C21_BlockBetweenDelimiters ==
    [][(pc = "start" /\ pc' = "loop") =>
          lines' = << <<>> >> \o ClaimBetween(content)]_vars

\* the number of empty lines of a text, and of blank lines of a list of lines
ClaimEmptyLines(text) ==
    Cardinality({i \in 1..Len(Split(text, NL)) : Split(text, NL)[i] = <<>>})

ClaimBlankLines(ls) == Cardinality({i \in 1..Len(ls) : Strip(ls[i]) = <<>>})

\* C22: every blank line met in block-scalar mode contributes one empty line
\* to the value stored for the key, wherever it stands: when a block scalar
\* with at least one content line is stored, the value has as many empty lines
\* as there were blank lines after the key line.
C22_BlankLines ==
    [][(/\ pc = "loop"
        /\ lines = <<>> \/ ClaimKeyLine(Head(lines))
        /\ LastKeyLine > 0
        /\ ClaimInline(AllLines[LastKeyLine]) \in {<<PIPE>>, <<GT>>}
        /\ ClaimKey(AllLines[LastKeyLine]) # <<>>
        /\ lines # <<>> => ClaimKey(Head(lines)) # ClaimKey(AllLines[LastKeyLine])
        /\ ClaimBlankLines(SubSeq(AllLines, LastKeyLine + 1, Visited))
              < Visited - LastKeyLine)
       =>
          LET k == ClaimKey(AllLines[LastKeyLine])
              following == SubSeq(AllLines, LastKeyLine + 1, Visited)
          IN  /\ DictHas(data', k)
              /\ ClaimEmptyLines(DictGet(data', k)) = ClaimBlankLines(following)]_vars

\* the key lines of the block that hold the key k
ClaimOccurrences(k) ==
    {i \in 1..Len(AllLines) : ClaimKeyLine(AllLines[i]) /\ ClaimKey(AllLines[i]) = k}

\* the lines of the block scalar opened on line i: up to the next key line
ClaimScalarLines(i) ==
    LET later == {j \in (i + 1)..Len(AllLines) : ClaimKeyLine(AllLines[j])}
        end == IF later = {} THEN Len(AllLines)
               ELSE (CHOOSE j \in later : \A h \in later : j <= h) - 1
    IN  [j \in 1..(end - i) |-> Strip(AllLines[i + j])]

\* the value the key line i gives to its key: the inline value, or the trimmed
\* lines of its block scalar
ClaimValueOf(i) ==
    IF ClaimInline(AllLines[i]) \in {<<PIPE>>, <<GT>>}
    THEN Strip(Join(ClaimScalarLines(i), NL))
    ELSE ClaimInline(AllLines[i])

ClaimKeys == {ClaimKey(AllLines[i]) : i \in {j \in 1..Len(AllLines) : ClaimKeyLine(AllLines[j])}}

\* C23: when a key occurs on several key lines of one block, in any mix of
\* inline and block-scalar forms, the mapping holds one entry for it, and its
\* value is the one given by the last occurrence in document order.
C23_LastOccurrenceWins ==
    (pc = "done" /\ fm.valid) =>
        \A k \in ClaimKeys :
            Cardinality(ClaimOccurrences(k)) >= 2 =>
                LET last == CHOOSE i \in ClaimOccurrences(k) :
                                \A j \in ClaimOccurrences(k) : j <= i
                IN  /\ Cardinality({i \in 1..Len(fm.data) : fm.data[i].k = k}) = 1
                    /\ DictGet(fm.data, k) = ClaimValueOf(last)

-----------------------------------------------------------------------------
(* Claims about the schema validators (SpecVal) *)

Has(list, msg) == \E i \in 1..Len(list) : list[i] = msg

Count(list, msg) == Cardinality({i \in 1..Len(list) : list[i] = msg})

\* the file is a skill file whose frontmatter was parsed and has a 'name'
SkillWithName ==
    /\ pc = "skill returned"
    /\ file.readable
    /\ validate_yaml_frontmatter(file.content).valid
    /\ DictHas(validate_yaml_frontmatter(file.content).data, NAME)

NameOfFile == DictGet(validate_yaml_frontmatter(file.content).data, NAME)

\* C7: for a skill file with a 'name', the finding 'name exceeds 64
\* characters' is produced if and only if the name is longer than 64
\* characters, whether the pattern rule fails or not.
C7_NameLength ==
    SkillWithName =>
        /\ Has(findings, NAME_TOO_LONG) <=> (PyLen(NameOfFile) > 64)
        /\ Count(findings, NAME_TOO_LONG) <= 1

\* a name of exactly 64 characters that breaks the pattern rule only
C7_Witness ==
    /\ SkillWithName
    /\ PyLen(NameOfFile) = 64
    /\ Has(findings, NAME_PATTERN)
    /\ ~Has(findings, NAME_TOO_LONG)

\* the text of a claim: one lowercase letter, then lowercase letters, digits
\* and hyphens only
ClaimNameShape(n) ==
    /\ Len(n) >= 1
    /\ n[1] \in LowerAtoms
    /\ \A i \in 2..Len(n) : n[i] \in LowerAtoms \cup DigitAtoms \cup {DASH}

\* C8: for a skill file with a 'name', the pattern finding is produced if and
\* only if the whole name is not one lowercase letter followed by lowercase
\* letters, digits and hyphens.
C8_NamePattern ==
    SkillWithName =>
        /\ Has(findings, NAME_PATTERN) <=> ~ClaimNameShape(NameOfFile)
        /\ Count(findings, NAME_PATTERN) <= 1

\* a name of two lines fails the pattern rule
C8_Witness ==
    /\ SkillWithName
    /\ NameOfFile = <<"a", NL, "a">>
    /\ Has(findings, NAME_PATTERN)

\* the file is a skill or agent file whose frontmatter was extracted
ExtractedSkillOrAgent ==
    /\ \/ pc = "skill returned"
       \/ pc = "agent returned" /\ PathName(file.path) # README_MD
    /\ file.readable
    /\ validate_yaml_frontmatter(file.content).valid

\* the text of a claim: what follows the closing delimiter the extractor
\* matched, trimmed
ClaimBody(c) == Strip(From(c, SearchClosing(From(c, 3)) + 3 + 4))

\* C9: for a skill or agent file whose frontmatter is extracted, the body the
\* length rule examines is the trimmed text after the closing delimiter the
\* extractor matched: a body under 100 characters gives an error finding, a
\* body of 100 characters or more gives none.
C9_BodyRule ==
    ExtractedSkillOrAgent =>
        ((Has(findings, SKILL_BODY_SHORT) \/ Has(findings, AGENT_BODY_SHORT))
            <=> (PyLen(ClaimBody(file.content)) < 100))

\* the text of a claim: a line starts with '#', white space follows it, and a
\* character that is not white space follows the white space
ClaimHeading(c) ==
    \E i \in 1..Len(c) :
        /\ i = 1 \/ c[i - 1] = NL
        /\ c[i] = HASH
        /\ i + 1 <= Len(c)
        /\ c[i + 1] \in Whitespace
        /\ LStrip(SubSeq(c, i + 1, Len(c))) # <<>>

ClaimCount(c, min) ==
    (IF ClaimHeading(c) THEN 0 ELSE 1) + (IF PyLen(Strip(c)) < min THEN 1 ELSE 0)

FrontmatterFails ==
    /\ \/ pc = "skill returned"
       \/ pc = "agent returned" /\ PathName(file.path) # README_MD
    /\ file.readable
    /\ ~FirstThreeAreDashes(file.content) \/ ~HasClosingLine(file.content)

FieldAndBodyMessages ==
    {MISSING_NAME, NAME_TOO_LONG, NAME_PATTERN, MISSING_DESCRIPTION,
     DESCRIPTION_TOO_LONG, SKILL_BODY_SHORT, AGENT_BODY_SHORT}

\* C24: a frontmatter failure short-circuits: for a skill or agent file whose
\* frontmatter is missing or has no closing delimiter the validator returns
\* exactly one finding, the one about the frontmatter, and none of the
\* findings of the field checks and of the body check.
C24_ShortCircuit ==
    FrontmatterFails =>
        /\ Len(findings) = 1
        /\ findings[1] =
              IF FirstThreeAreDashes(file.content) THEN MISSING_CLOSING
              ELSE IF pc = "skill returned" THEN MISSING_FRONTMATTER
              ELSE AGENT_NO_FRONTMATTER
        /\ \A i \in DOMAIN findings : findings[i] \notin FieldAndBodyMessages

\* a skill file with a name that breaks two rules, no description and no
\* closing delimiter: one finding
C24_Witness ==
    /\ pc = "skill returned"
    /\ file.content = OPENING \o <<NL, NAME[1], COLON, SP, "M", "y*63", "a", NL>> \o OPENING
    /\ findings = <<MISSING_CLOSING>>

-----------------------------------------------------------------------------
(* Claims about the JSON checker (SpecVal) *)

\* the texts that are JSON by the grammar of JSON
ClaimStrictJson(text) ==
    text \in {JSON_EMPTY, JSON_COMMENT_KEY, JSON_EMPTY_LINES, JSON_BIG_INT, JSON_DEEP}

\* C19: the JSON checker has three outcomes and parses the content as it is:
\* valid without a message when the content is strict JSON, keys that start
\* with '//' included; the 'JSON syntax error' message when the parser rejects
\* the content; the read error message when, and only when, the file cannot be
\* read or decoded.
C19_JsonOutcomes ==
    pc = "json returned" =>
        /\ findings \in {<<>>, <<JSON_SYNTAX_ERROR>>, <<ERROR_READING>>}
        /\ (file.readable /\ ClaimStrictJson(file.content)) => findings = <<>>
        /\ (file.readable /\ JsonLoads(file.content) = "JSONDecodeError")
              => findings = <<JSON_SYNTAX_ERROR>>
        /\ findings = <<ERROR_READING>> <=> ~file.readable

-----------------------------------------------------------------------------
(* Claims about the hook (SpecHook) *)

\* a file path argument that is neither empty nor the placeholder is given
ClaimPathGiven == Len(argv) >= 1 /\ argv[1] # <<>> /\ argv[1] # PLACEHOLDER

\* C20: the hook exits with status 1 if and only if a file path argument that
\* is neither empty nor the placeholder is given and is_protected reports it
\* blocked; with no argument, an empty argument or the placeholder it exits
\* with status 0; is_protected returns a reason that is not empty exactly when
\* it returns blocked.
C20_HookBlocks ==
    /\ pc = "exit" =>
          /\ exit_code \in {0, 1}
          /\ exit_code = 1 <=> (ClaimPathGiven /\ is_protected(argv[1]).blocked)
          /\ ~ClaimPathGiven => exit_code = 0
    /\ pc \in {"checked", "exit"} => (protected.reason # <<>> <=> protected.blocked)
    /\ \A q \in HookPaths \cup {<<>>, PLACEHOLDER} :
          is_protected(q).reason # <<>> <=> is_protected(q).blocked

\* the text of a claim: a '.json' file located directly in a 'gcloud' directory
ClaimGcloudJson(q) ==
    LET parts == PathParts(q)
    IN  /\ Len(parts) >= 2
        /\ parts[Len(parts) - 1] = <<"gcloud">>
        /\ EndsWith(parts[Len(parts)], <<DOT, "json">>)

\* C27: every pattern of PROTECTED_PATTERNS protects the files it describes:
\* for each entry there is a path that matches_pattern accepts for it, and
\* every '.json' file located directly in a 'gcloud' directory is reported
\* protected by is_protected.
C27_PatternsProtect ==
    /\ \A i \in DOMAIN PROTECTED_PATTERNS :
          \E q \in HookPaths : matches_pattern(q, PROTECTED_PATTERNS[i])
    /\ (pc \in {"checked", "exit"} /\ ClaimPathGiven /\ ClaimGcloudJson(argv[1]))
          => protected.blocked

\* the hook has blocked a file of a '.ssh' directory
C20_Witness ==
    /\ pc = "exit"
    /\ exit_code = 1
    /\ argv[1] = <<"/", "home", "/", "u", "/", ".", "ssh", "/", "id_rsa">>
    /\ protected = [blocked |-> TRUE, reason |-> DirectoryReason(<<".", "ssh">>)]

=============================================================================
